---- MODULE Spec2Model ----
(***************************************************************************)
(* A model of the window-interaction core of ViewMesh                      *)
(* (src/src/view_mesh/viewmesh.py): WindowGeometryManager, the eight       *)
(* EdgeResizeHandle widgets, the HighlightOverlay with the Inspector's     *)
(* row handlers, and the pointer drag modes of ViewMeshApp.                *)
(***************************************************************************)
EXTENDS Integers, Sequences, FiniteSets, TLC

VARIABLES
    screens,      \* QApplication.screens(): sequence of displays, the first is the primary
    settings,     \* the WindowSettings record used by the WindowGeometryManager
    window,       \* the managed window: geometry, visibility, minimized flag
    gop,          \* the last geometry operation and what it saw
    app,          \* ViewMeshApp: its geometry, window state and drag flags
    handles,      \* the drag state of the eight EdgeResizeHandle widgets
    qt,           \* the toolkit: pressed buttons, event receiver, grab, cursor stack, timer
    hop,          \* the last pointer operation and what it saw
    widgets,      \* the main window's widgets the inspector lists: visibility, rectangle
    overlay,      \* HighlightOverlay: target_rect, is_sticky, is_highlighting, shown, geometry
    inspector,    \* InspectorWindow: sticky_highlighted_widget and the row under the pointer
    oop,          \* the last overlay or inspector operation and what it saw
    tree,         \* the QObject tree below the main window: parent, kind, hidden flag
    walk,         \* the inspector's two renderings of the tree and its last refresh
    qsettings,    \* the QSettings store: what value(key) answers for the tuple-valued keys
    config        \* the outcome of the last AppConfig.load()

gvars == <<screens, settings, window, gop>>

pvars == <<app, handles, qt, hop>>

ovars == <<widgets, overlay, inspector, oop>>

\* what the operations of one part of the program leave alone
tvars == <<tree, walk>>

cvars == <<qsettings, config>>

GeoFrame == UNCHANGED <<pvars, ovars, tvars, cvars>>

PointerFrame == UNCHANGED <<gvars, ovars, tvars, cvars>>

OverlayFrame == UNCHANGED <<gvars, pvars, tvars, cvars>>

WalkFrame == UNCHANGED <<gvars, pvars, ovars, cvars>>

LoadFrame == UNCHANGED <<gvars, pvars, ovars, tvars>>

vars == <<screens, settings, window, gop, app, handles, qt, hop,
          widgets, overlay, inspector, oop, tree, walk, qsettings, config>>

\* ------------------------------------------------------------------------
\* Python float arithmetic (IEEE 754 binary64, round to nearest even).
\* A float is kept as the pair <<num, den>> of small integers whose
\* correctly rounded quotient it is; the product with an integer and the
\* truncation int() are computed on the 53-bit significand.
\* ------------------------------------------------------------------------
MantBits == 53

Abs(n) == IF n < 0 THEN -n ELSE n

Max(a, b) == IF a >= b THEN a ELSE b

Min(a, b) == IF a <= b THEN a ELSE b

RECURSIVE IntBits(_)
\* the binary digits of n >= 0, most significant first (<<>> for 0)
IntBits(n) == IF n = 0 THEN <<>> ELSE Append(IntBits(n \div 2), n % 2)

RECURSIVE BitsToInt(_)
BitsToInt(bs) ==
    IF bs = <<>> THEN 0
    ELSE 2 * BitsToInt(SubSeq(bs, 1, Len(bs) - 1)) + bs[Len(bs)]

\* bs + 1 on a most-significant-first digit sequence; the result is one digit
\* longer when every digit of bs is 1
IncBits(bs) ==
    LET n == Len(bs)
        carry(i) == \A k \in i..n : bs[k] = 1     \* carry into position i - 1
        res == [i \in 1..n |-> (bs[i] + (IF carry(i + 1) THEN 1 ELSE 0)) % 2]
    IN  IF carry(1) THEN <<1>> \o res ELSE res

\* round a digit sequence with a leading 1 to MantBits digits; sticky says
\* whether nonzero digits follow the sequence.  Result: [m, shift] where the
\* value is m * 2^shift in units of the last digit of bs
RoundBits(bs, sticky) ==
    LET n == Len(bs)
    IN  IF n <= MantBits THEN [m |-> bs, shift |-> 0]
        ELSE
        LET keep  == SubSeq(bs, 1, MantBits)
            guard == bs[MantBits + 1]
            rest  == sticky \/ (\E i \in (MantBits + 2)..n : bs[i] = 1)
            up    == guard = 1 /\ (rest \/ keep[MantBits] = 1)
            inc   == IF up THEN IncBits(keep) ELSE keep
        IN  IF Len(inc) > MantBits
            THEN [m |-> SubSeq(inc, 1, MantBits), shift |-> n - MantBits + 1]
            ELSE [m |-> inc, shift |-> n - MantBits]

LimbBits == 13

\* the digits of n < 2^LimbBits, most significant first, padded to LimbBits digits
PadBits(n) ==
    LET b == IntBits(n)
    IN  [i \in 1..(LimbBits - Len(b)) |-> 0] \o b

\* float(a) / float(d) for integers a > 0, 0 < d < 2^15: [m, e] with value
\* m * 2^e, m the MantBits-digit significand of the correctly rounded
\* quotient.  The fraction digits of a / d are produced by long division,
\* LimbBits digits at a time
FloatDiv(a, d) ==
    LET ib == IntBits(a \div d)
        li == Len(ib)
        nl == 6
        B  == 2 ^ LimbBits
        R[k \in 0..nl] == IF k = 0 THEN a % d ELSE (R[k - 1] * B) % d
        Q(k) == (R[k - 1] * B) \div d
        D  == ib \o PadBits(Q(1)) \o PadBits(Q(2)) \o PadBits(Q(3))
                 \o PadBits(Q(4)) \o PadBits(Q(5)) \o PadBits(Q(6))
        p  == CHOOSE j \in 1..Len(D) : D[j] = 1 /\ \A k \in 1..(j - 1) : D[k] = 0
        last == p + MantBits         \* MantBits digits and the guard digit
        bs == SubSeq(D, p, last)
        sticky == R[nl] # 0 \/ \E i \in (last + 1)..Len(D) : D[i] = 1
        r  == RoundBits(bs, sticky)
    IN  [m |-> r.m, e |-> li - last + r.shift]

\* digit sequence without its leading zeros
StripZeros(bs) ==
    IF \A i \in 1..Len(bs) : bs[i] = 0 THEN <<>>
    ELSE LET p == CHOOSE j \in 1..Len(bs) : bs[j] = 1 /\ \A k \in 1..(j - 1) : bs[k] = 0
         IN  SubSeq(bs, p, Len(bs))

\* the float product f * float(w) for a float f = [m, e] and an integer
\* 0 < w < 2^15, computed exactly on LimbBits-digit limbs and then rounded
FloatMulInt(f, w) ==
    LET nl == 5
        pad == [i \in 1..(nl * LimbBits - Len(f.m)) |-> 0] \o f.m
        limb(k) == BitsToInt(SubSeq(pad, (nl - k) * LimbBits + 1, (nl - k + 1) * LimbBits))
        B == 2 ^ LimbBits
        c[k \in 0..nl] == IF k = 0 THEN 0 ELSE (limb(k) * w + c[k - 1]) \div B
        d(k) == (limb(k) * w + c[k - 1]) % B
        prod == StripZeros(IntBits(c[nl]) \o PadBits(d(5)) \o PadBits(d(4))
                           \o PadBits(d(3)) \o PadBits(d(2)) \o PadBits(d(1)))
        r == RoundBits(prod, FALSE)
    IN  [m |-> r.m, e |-> f.e + r.shift]

\* int(f) for a float f = [m, e] >= 0: truncation toward zero
FloatToInt(f) ==
    LET t == Len(f.m) + f.e
    IN  IF t <= 0 THEN 0 ELSE BitsToInt(SubSeq(f.m, 1, t))

\* int(rel * w) where rel is the float nearest rel[1] / rel[2]
IntOfRelTimes(rel, w) ==
    IF rel[1] = 0 \/ w = 0 THEN 0
    ELSE LET mag == FloatToInt(FloatMulInt(FloatDiv(Abs(rel[1]), rel[2]), Abs(w)))
         IN  IF (rel[1] < 0) # (w < 0) THEN -mag ELSE mag


\* ------------------------------------------------------------------------
\* Rectangles (QRect) and displays (QScreen)
\* ------------------------------------------------------------------------
Rect(x, y, w, h) == [x |-> x, y |-> y, w |-> w, h |-> h]

NoRect == Rect(0, 0, 0, 0)

\* QRect.intersects with the 1x1 rectangle at (px, py); an empty rectangle
\* intersects nothing
ContainsPoint(r, px, py) ==
    /\ r.w > 0 /\ r.h > 0
    /\ r.x <= px /\ px < r.x + r.w
    /\ r.y <= py /\ py < r.y + r.h

Intersects(r, a) ==
    /\ r.w > 0 /\ r.h > 0 /\ a.w > 0 /\ a.h > 0
    /\ r.x < a.x + a.w /\ a.x < r.x + r.w
    /\ r.y < a.y + a.h /\ a.y < r.y + r.h

\* C++ integer division by two (truncation toward zero)
Half(n) == IF n >= 0 THEN n \div 2 ELSE -((-n) \div 2)

\* QRect.center(): the midpoint of the first and the last pixel
Center(r) == <<Half(r.x + (r.x + r.w - 1)), Half(r.y + (r.y + r.h - 1))>>

Screen(name, geometry, available) ==
    [name |-> name, geometry |-> geometry, available |-> available]

D1 == Screen("D1", Rect(0, 0, 1920, 1080), Rect(0, 0, 1920, 1040))

D2 == Screen("D2", Rect(1920, 0, 1366, 768), Rect(1920, 40, 1366, 728))

DisplayConfigs == {<<>>, <<D1>>, <<D1, D2>>, <<D2, D1>>}

ScreenIds == 1..Len(screens)

\* the first display among those with index in ids, 0 when there is none
FirstScreen(ids) ==
    IF ids = {} THEN 0 ELSE CHOOSE i \in ids : \A j \in ids : i <= j

\* QApplication.primaryScreen(): index of the primary display, 0 for none
primaryScreen == IF Len(screens) > 0 THEN 1 ELSE 0

\* QApplication.screenAt(p)
screenAt(p) ==
    FirstScreen({i \in ScreenIds : ContainsPoint(screens[i].geometry, p[1], p[2])})

\* what window.screen() may answer: any display, 0 only when there is none
AnyScreen == IF Len(screens) > 0 THEN ScreenIds ELSE {0}

\* ------------------------------------------------------------------------
\* WindowSettings / InspectorWindowSettings
\* ------------------------------------------------------------------------
\* a float relative position component is the pair <<num, den>>
Rel(num, den) == <<num, den>>

RECURSIVE Gcd(_, _)
Gcd(a, b) == IF b = 0 THEN a ELSE Gcd(b, a % b)

\* the pair in lowest terms (equal floats have equal pairs)
RelNorm(num, den) ==
    LET g == Gcd(Abs(num), den) IN <<num \div g, den \div g>>

RelLE(a, b) == a[1] * b[2] <= b[1] * a[2]

DefaultSettings ==
    [ size              |-> <<1024, 768>>,
      position          |-> <<100, 100>>,
      relative_position |-> <<Rel(1, 10), Rel(1, 10)>>,
      screen_name       |-> "",
      screen_geometry   |-> <<0, 0, 0, 0>> ]

\* the window's minimum size, below which QWidget.resize does not go
MinWindowWidth == 120

MinWindowHeight == 80

\* number of steps of the grid of stored coordinates
MaxCoord == 3

StoredPositions == {<<0, 0>>} \cup {<<700 * i - 500, 300 * i - 200>> : i \in 0..MaxCoord}

StoredSizes == {<<1024, 768>>, <<0, 0>>, <<2000, 1200>>}

StoredRels == { <<Rel(1, 10), Rel(1, 10)>>, <<Rel(1, 1), Rel(123, 1920)>>,
                <<Rel(-1, 2), Rel(3, 2)>> }

\* stored display name and display bounds
StoredScreens == { <<"", <<0, 0, 0, 0>> >>, <<"D2", <<0, 0, 0, 0>> >>,
                   <<"D2", <<1920, 0, 1366, 768>> >>, <<"DX", <<0, 0, 2560, 1440>> >> }

\* rectangles the user moves and resizes the window to: inside D1, inside D1
\* and inside D2 at coordinates whose relative position does not multiply
\* back exactly, hanging over the left edge, over the right and bottom edge
\* of D1, and with its centre below D2
UserRects ==
    { Rect(123, 200, 800, 600),
      Rect(2607, 69, 400, 300), Rect(-200, 100, 800, 600),
      Rect(1500, 500, 800, 600), Rect(3000, 500, 800, 600) }

\* where a minimized window reports its geometry
MinimizedRect == Rect(-32000, -32000, 160, 28)

\* ------------------------------------------------------------------------
\* EdgeResizeHandle
\* ------------------------------------------------------------------------
HandlePositions ==
    {"TOP_LEFT", "TOP", "TOP_RIGHT", "LEFT", "RIGHT", "BOTTOM_LEFT", "BOTTOM", "BOTTOM_RIGHT"}

LeftHandles == {"TOP_LEFT", "LEFT", "BOTTOM_LEFT"}

RightHandles == {"TOP_RIGHT", "RIGHT", "BOTTOM_RIGHT"}

TopHandles == {"TOP_LEFT", "TOP", "TOP_RIGHT"}

BottomHandles == {"BOTTOM_LEFT", "BOTTOM", "BOTTOM_RIGHT"}

\* resize_handle_thickness
Thickness == 5

NoPoint == <<>>

\* EdgeResizeHandle.__init__
IdleHandle ==
    [is_dragging |-> FALSE, drag_start_pos |-> NoPoint, parent_window_start_geometry |-> NoRect]

\* EdgeResizeHandle.update_geometry: the handle's rectangle inside a parent of
\* size pw x ph
HandleRect(position, pw, ph) ==
    LET th == Thickness
        r == CASE position = "TOP_LEFT"     -> Rect(0, 0, th, th)
               [] position = "TOP"          -> Rect(th, 0, pw - 2 * th, th)
               [] position = "TOP_RIGHT"    -> Rect(pw - th, 0, th, th)
               [] position = "LEFT"         -> Rect(0, th, th, ph - 2 * th)
               [] position = "RIGHT"        -> Rect(pw - th, th, th, ph - 2 * th)
               [] position = "BOTTOM_LEFT"  -> Rect(0, ph - th, th, th)
               [] position = "BOTTOM"       -> Rect(th, ph - th, pw - 2 * th, th)
               [] position = "BOTTOM_RIGHT" -> Rect(pw - th, ph - th, th, th)
    IN  Rect(r.x, r.y, Max(r.w, 0), Max(r.h, 0))

\* the minimum size used by a drag: minimumSizeHint, or 100 where the hint
\* is not positive
FallbackMinimum == 100

MinWidth == IF app.min_hint[1] <= 0 THEN FallbackMinimum ELSE app.min_hint[1]

MinHeight == IF app.min_hint[2] <= 0 THEN FallbackMinimum ELSE app.min_hint[2]

\* QRect.setX followed by QRect.setWidth: the left edge, then the width
SetXWidth(r, x, w) == [r EXCEPT !.x = x, !.w = w]

SetYHeight(r, y, h) == [r EXCEPT !.y = y, !.h = h]

\* mouseMoveEvent, the adjustment along the x axis for a handle position
AdjustX(position, start, dx, r) ==
    IF position \in LeftHandles
    THEN IF start.w - dx >= MinWidth THEN SetXWidth(r, start.x + dx, start.w - dx) ELSE r
    ELSE IF position \in RightHandles THEN [r EXCEPT !.w = start.w + dx]
    ELSE r

\* mouseMoveEvent, the adjustment along the y axis for a handle position
AdjustY(position, start, dy, r) ==
    IF position \in TopHandles
    THEN IF start.h - dy >= MinHeight THEN SetYHeight(r, start.y + dy, start.h - dy) ELSE r
    ELSE IF position \in BottomHandles THEN [r EXCEPT !.h = start.h + dy]
    ELSE r

\* EnforceMinimum left out
EnforceMinimumNone(r) == r

\* mouseMoveEvent, "Enforce minimum size on the final calculated geometry"
EnforceMinimum(r) ==
    LET r1 == IF r.w < MinWidth THEN [r EXCEPT !.w = MinWidth] ELSE r
    IN  IF r1.h < MinHeight THEN [r1 EXCEPT !.h = MinHeight] ELSE r1

\* the rectangle a drag of the handle by delta applies to the window
NewGeometry(position, start, delta) ==
    EnforceMinimum(AdjustY(position, start, delta[2],
                           AdjustX(position, start, delta[1], start)))

\* a point of the handle's rectangle in global coordinates: its top-left corner
PressPoint(h) ==
    LET r == HandleRect(h, app.geometry.w, app.geometry.h)
    IN  <<app.geometry.x + r.x, app.geometry.y + r.y>>

\* a widget of no area receives no pointer events
HandleShown(h) ==
    LET r == HandleRect(h, app.geometry.w, app.geometry.h)
    IN  r.w > 0 /\ r.h > 0

\* ------------------------------------------------------------------------
\* Pointer events: the toolkit's delivery and the handlers of ViewMeshApp
\* ------------------------------------------------------------------------
Buttons == {"left", "right", "middle"}

\* what the pointer can be over: a resize handle, the title bar outside its
\* push buttons and menu actions, the maximize button, anything else
Targets == HandlePositions \cup {"title", "button", "content"}

\* where a point lies for mousePressEvent: in the title bar and on no
\* control, in the title bar on a control, or outside the title bar
Overs == {"title", "control", "outside"}

\* the handles reach into the title bar, except those of the bottom edge
OverOf(target) ==
    CASE target = "title"   -> {"title"}
      [] target = "button"  -> {"control"}
      [] target = "content" -> {"outside"}
      [] target \in BottomHandles -> {"outside"}
      [] OTHER -> Overs

\* the pointer position of an event over the target
PointOf(target) ==
    CASE target \in HandlePositions -> PressPoint(target)
      [] target = "title"  -> <<app.geometry.x + 50, app.geometry.y + 10>>
      [] target = "button" -> <<app.geometry.x + app.geometry.w - 60, app.geometry.y + 10>>
      [] OTHER -> <<app.geometry.x + 50, app.geometry.y + 100>>

\* the program state the handlers work on
St == [app |-> app, handles |-> handles, qt |-> qt]

\* what a pointer operation saw: the widget the event went to, the button,
\* the start rectangle and pointer delta of a resize, the presses so far,
\* whether a handle resized the window, is_context_menu_moving and dragging
\* before; for a press, where the pointer was, whether the native move
\* would succeed, and whether the press reached ViewMeshApp.mousePressEvent
PtrOp(op, who, button, start, delta, n, resized) ==
    [op |-> op, who |-> who, button |-> button, start |-> start, delta |-> delta,
     n |-> n, resized |-> resized, moving |-> app.is_context_menu_moving,
     dragging |-> app.dragging, over |-> "none", native |-> FALSE, main |-> FALSE]

\* leaving the context-menu move, but keeping the pointer grab
ExitMoveNoRelease(st) ==
    [st EXCEPT !.app.is_context_menu_moving = FALSE, !.qt.timer = FALSE,
               !.qt.override = IF @ > 0 THEN @ - 1 ELSE 0]

\* eventFilter and mousePressEvent while is_context_menu_moving: stop the
\* timer, clear the flag, releaseMouse, restoreOverrideCursor
ExitMove(st) ==
    [st EXCEPT !.app.is_context_menu_moving = FALSE, !.qt.timer = FALSE,
               !.qt.grab = FALSE, !.qt.override = IF @ > 0 THEN @ - 1 ELSE 0]

\* the OS-native move is taken: win32 with the API loaded, and the call
\* does not throw
NativeMove(st, b, over, native) ==
    ~st.app.is_context_menu_moving /\ b = "left" /\ over = "title" /\ st.app.win32 /\ native

\* mousePressEvent that starts a drag wherever the left button goes down
main_mousePressEventAnywhere(st, b, over, at, native, delta) ==
    IF st.app.is_context_menu_moving THEN ExitMove(st)
    ELSE IF b = "left"
    THEN [st EXCEPT !.app.dragging = TRUE, !.app.drag_start_position = at,
                    !.app.window_start_position = <<st.app.geometry.x, st.app.geometry.y>>]
    ELSE st

\* ViewMeshApp.mousePressEvent; the OS moves the window by delta where the
\* native move is taken
main_mousePressEvent(st, b, over, at, native, delta) ==
    IF st.app.is_context_menu_moving THEN ExitMove(st)
    ELSE IF b = "left" /\ over = "title"
    THEN IF st.app.win32 /\ native
         THEN [st EXCEPT !.app.geometry.x = @ + delta[1], !.app.geometry.y = @ + delta[2]]
         ELSE [st EXCEPT !.app.dragging = TRUE, !.app.drag_start_position = at,
                         !.app.window_start_position = <<st.app.geometry.x, st.app.geometry.y>>]
    ELSE st

\* ViewMeshApp.eventFilter on the title bar, the menu bar and the window
\* itself: a press while is_context_menu_moving is consumed; rest is what
\* the event does otherwise
eventFilter(st, rest) == IF st.app.is_context_menu_moving THEN ExitMove(st) ELSE rest

\* EdgeResizeHandle.mousePressEvent takes the press
HandleTakes(st, recv, b) ==
    recv \in HandlePositions /\ b = "left" /\ st.app.state # "maximized"

\* a press delivered to recv: the handle takes it, or the push button does,
\* or it reaches the main window through its event filter
PressEvent(st, recv, b, over, at, native, delta) ==
    IF HandleTakes(st, recv, b)
    THEN [st EXCEPT !.handles[recv] =
             [is_dragging |-> TRUE, drag_start_pos |-> at,
              parent_window_start_geometry |-> st.app.geometry]]
    ELSE IF recv = "button" /\ b = "left" THEN st
    ELSE eventFilter(st, main_mousePressEvent(st, b, over, at, native, delta))

\* EdgeResizeHandle.mouseMoveEvent resizes the window
HandleResizes(st, recv) ==
    /\ recv \in HandlePositions
    /\ st.handles[recv].is_dragging /\ "left" \in st.qt.buttons
    /\ st.handles[recv].parent_window_start_geometry # NoRect

\* mouseMoveEvent that moves the window on from where the last event left it
main_mouseMoveEventRelative(st, delta) ==
    IF st.app.dragging /\ "left" \in st.qt.buttons
    THEN [st EXCEPT !.app.geometry.x = @ + delta[1], !.app.geometry.y = @ + delta[2]]
    ELSE [st EXCEPT !.app.cursor = IF st.app.state = "maximized" THEN @ ELSE "arrow"]

\* ViewMeshApp.mouseMoveEvent; delta is the pointer minus drag_start_position
main_mouseMoveEvent(st, delta) ==
    IF st.app.dragging /\ "left" \in st.qt.buttons
    THEN [st EXCEPT !.app.geometry.x = st.app.window_start_position[1] + delta[1],
                    !.app.geometry.y = st.app.window_start_position[2] + delta[2]]
    \* without a drag the handler sets the cursor by get_resize_direction; the
    \* edge strip is under the handles, so the pointer it sees is off every edge
    ELSE [st EXCEPT !.app.cursor = IF st.app.state = "maximized" THEN @ ELSE "arrow"]

\* a move whose handle resize starts from the window as the last move left it
MoveEventFromCurrent(st, recv, delta) ==
    IF HandleResizes(st, recv)
    THEN [st EXCEPT !.app.geometry = NewGeometry(recv, st.app.geometry, delta)]
    ELSE IF recv = "button" /\ "left" \in st.qt.buttons THEN st
    ELSE main_mouseMoveEvent(st, delta)

\* a move delivered to recv, the pointer at delta from where the drag began
MoveEvent(st, recv, delta) ==
    IF HandleResizes(st, recv)
    THEN [st EXCEPT !.app.geometry =
             NewGeometry(recv, st.handles[recv].parent_window_start_geometry, delta)]
    ELSE IF recv = "button" /\ "left" \in st.qt.buttons THEN st
    ELSE main_mouseMoveEvent(st, delta)

\* the text of maximize_button: "maximize" is the empty square the button is
\* created with, "restore" the overlapping squares
\* toggle_maximize that leaves the button text alone
toggle_maximizeNoGlyph(st) ==
    [st EXCEPT !.app.state = IF @ = "maximized" THEN "normal" ELSE "maximized"]

\* ViewMeshApp.toggle_maximize: showNormal() when isMaximized(), showMaximized()
\* otherwise (also from full screen), and the button text that goes with it
toggle_maximize(st) ==
    [st EXCEPT !.app.state = IF @ = "maximized" THEN "normal" ELSE "maximized",
               !.app.glyph = IF st.app.state = "maximized" THEN "maximize" ELSE "restore"]

\* ViewMeshApp.mouseDoubleClickEvent; over says where the point lies: in the
\* title bar on no QPushButton or QMenuBar, in it on one, or outside it
main_mouseDoubleClickEvent(st, b, over) ==
    IF b = "left" /\ over = "title" THEN toggle_maximize(st) ELSE st

\* ViewMeshApp.toggle_fullscreen
toggle_fullscreen(st) ==
    IF st.app.state = "fullscreen"
    THEN [st EXCEPT !.app.state = "normal",
                    !.app.glyph = IF st.app.was_maximized_before_fullscreen
                                  THEN "restore" ELSE "maximize"]
    ELSE [st EXCEPT !.app.was_maximized_before_fullscreen = st.app.state = "maximized",
                    !.app.state = "fullscreen"]

\* ViewMeshApp.mouseReleaseEvent
main_mouseReleaseEvent(st, b) ==
    IF b = "left" /\ st.app.dragging
    THEN [st EXCEPT !.app.dragging = FALSE, !.app.drag_start_position = NoPoint,
                    !.app.window_start_position = NoPoint, !.app.cursor = "arrow"]
    ELSE st

\* a release delivered to recv with the pointer over target
ReleaseEvent(st, recv, b, target) ==
    IF recv \in HandlePositions /\ b = "left" /\ st.handles[recv].is_dragging
    THEN [st EXCEPT !.handles[recv] = IdleHandle]
    ELSE IF recv = "button" /\ b = "left"
    THEN IF target = "button" THEN toggle_maximize(st) ELSE st
    ELSE main_mouseReleaseEvent(st, b)

\* the widget an event goes to: the grabbing window, or the widget that got
\* the first press of the buttons held, or the widget under the pointer
Receiver(target) ==
    IF qt.grab THEN "main" ELSE IF qt.receiver # "none" THEN qt.receiver ELSE target

\* a button goes down with the pointer over target; a right press that
\* reaches the title bar opens its context menu
Press(b, target, over, native, delta) ==
    /\ b \notin qt.buttons /\ ~qt.menu
    /\ over \in OverOf(target)
    /\ target \in HandlePositions => HandleShown(target)
    /\ native => (app.win32 /\ b = "left" /\ over = "title")
    /\ ~native => delta = <<0, 0>>
    /\ LET recv == Receiver(target)
           taken == ~HandleTakes(St, recv, b) /\ ~(recv = "button" /\ b = "left")
                       /\ NativeMove(St, b, over, native)
           r == PressEvent(St, recv, b, over, PointOf(target), native, delta)
       IN  /\ app' = r.app
           /\ handles' = r.handles
           /\ qt' = IF taken THEN r.qt
                    ELSE [r.qt EXCEPT !.buttons = @ \cup {b},
                                      !.receiver = IF @ = "none" THEN target ELSE @,
                                      !.menu = b = "right" /\ recv \in {"title", "button"}]
           /\ hop' = [PtrOp("press", recv, b, app.geometry, <<0, 0>>, hop.n + 1, FALSE)
                        EXCEPT !.over = over, !.native = native,
                               !.main = ~HandleTakes(St, recv, b)
                                           /\ ~(recv = "button" /\ b = "left")]

\* the pointer moves while a button is held or the window grabs the pointer
Move(target, delta) ==
    /\ ~qt.menu
    /\ qt.buttons # {} \/ qt.grab
    /\ LET recv == Receiver(target)
           r == MoveEvent(St, recv, delta)
       IN  /\ app' = r.app
           /\ UNCHANGED <<handles, qt>>
           /\ hop' = PtrOp("move", recv, "none",
                           IF HandleResizes(St, recv)
                           THEN handles[recv].parent_window_start_geometry ELSE NoRect,
                           delta, hop.n, HandleResizes(St, recv))

\* a button goes up with the pointer over target
Release(b, target) ==
    /\ b \in qt.buttons /\ ~qt.menu
    /\ LET recv == Receiver(target)
           r == ReleaseEvent(St, recv, b, target)
       IN  /\ app' = r.app
           /\ handles' = r.handles
           /\ qt' = [r.qt EXCEPT !.buttons = @ \ {b},
                                 !.receiver = IF qt.buttons = {b} THEN "none" ELSE @]
           /\ hop' = PtrOp("release", recv, b, NoRect, <<0, 0>>, hop.n, FALSE)

\* a button goes up while the context menu is open: the menu gets the event
PopupRelease(b) ==
    /\ qt.menu /\ b \in qt.buttons
    /\ qt' = [qt EXCEPT !.buttons = @ \ {b}, !.receiver = "none"]
    /\ hop' = PtrOp("popup_release", "menu", b, NoRect, <<0, 0>>, hop.n, FALSE)
    /\ UNCHANGED <<app, handles>>

MenuActions == {"move", "maximize", "none"}

\* show_title_bar_context_menu after context_menu.exec returns the action
MenuChoice(st, action) ==
    CASE action = "move" ->
            [st EXCEPT !.app.is_context_menu_moving = TRUE,
                       !.app.context_menu_drag_start_position =
                           <<st.app.geometry.x + 60, st.app.geometry.y + 40>>,
                       !.app.context_menu_window_start_position =
                           <<st.app.geometry.x, st.app.geometry.y>>,
                       !.qt.override = @ + 1, !.qt.timer = TRUE, !.qt.grab = TRUE]
      [] action = "maximize" -> toggle_maximize(st)
      [] OTHER -> st

\* the context menu closes with an action chosen, or none
MenuSelect(action) ==
    /\ qt.menu
    /\ LET r == MenuChoice(St, action)
       IN  /\ app' = r.app
           /\ qt' = [r.qt EXCEPT !.menu = FALSE]
    /\ hop' = PtrOp("menu", action, "none", NoRect, <<0, 0>>, hop.n, FALSE)
    /\ UNCHANGED handles

\* the cursor shape EdgeResizeHandle.enterEvent picks for a handle
CursorShape(h) ==
    CASE h \in {"TOP_LEFT", "BOTTOM_RIGHT"} -> "size_fdiag"
      [] h \in {"TOP_RIGHT", "BOTTOM_LEFT"} -> "size_bdiag"
      [] h \in {"TOP", "BOTTOM"} -> "size_ver"
      [] h \in {"LEFT", "RIGHT"} -> "size_hor"
      [] OTHER -> "arrow"

\* EdgeResizeHandle.enterEvent
enterEvent(st, h) == [st EXCEPT !.app.cursor = CursorShape(h)]

\* EdgeResizeHandle.leaveEvent
leaveEvent(st, h) == [st EXCEPT !.app.cursor = "arrow"]

\* the pointer comes over handle h: the handle it was over before gets its
\* leave event first
Enter(h) ==
    /\ HandleShown(h) /\ qt.hover # h /\ ~qt.menu
    /\ LET left == IF qt.hover \in HandlePositions THEN leaveEvent(St, qt.hover) ELSE St
           r == enterEvent(left, h)
       IN  /\ app' = r.app
           /\ qt' = [r.qt EXCEPT !.hover = h]
    /\ hop' = PtrOp("enter", h, "none", NoRect, <<0, 0>>, hop.n, FALSE)
    /\ UNCHANGED handles

\* the pointer goes from handle h to a place that is on no handle
Leave(h) ==
    /\ qt.hover = h /\ ~qt.menu
    /\ LET r == leaveEvent(St, h)
       IN  /\ app' = r.app
           /\ qt' = [r.qt EXCEPT !.hover = "none"]
    /\ hop' = PtrOp("leave", h, "none", NoRect, <<0, 0>>, hop.n, FALSE)
    /\ UNCHANGED handles

\* a double-click with no button held and no menu open; a push button
\* takes the event itself, anything else leaves it to the main window
DoubleClick(b, target, over) ==
    /\ qt.buttons = {} /\ ~qt.menu /\ ~qt.grab
    /\ target \in {"title", "button", "content"}
    /\ over \in OverOf(target)
    /\ LET r == IF target = "button" THEN St ELSE main_mouseDoubleClickEvent(St, b, over)
       IN  app' = r.app
    /\ hop' = [PtrOp("dblclick", target, b, NoRect, <<0, 0>>, hop.n, FALSE)
                 EXCEPT !.over = over]
    /\ UNCHANGED <<handles, qt>>

\* maximize_button.clicked
ClickMaximize ==
    /\ qt.buttons = {} /\ ~qt.menu /\ ~qt.grab
    /\ app' = toggle_maximize(St).app
    /\ hop' = PtrOp("click", "button", "left", NoRect, <<0, 0>>, hop.n, FALSE)
    /\ UNCHANGED <<handles, qt>>

\* the Restore or Maximize command of the title bar's context menu,
\* whichever the menu offers
MenuMaximizeRestore ==
    /\ qt.buttons = {} /\ ~qt.menu /\ ~qt.grab
    /\ app' = MenuChoice(St, "maximize").app
    /\ hop' = PtrOp("menu", "maximize", "none", NoRect, <<0, 0>>, hop.n, FALSE)
    /\ UNCHANGED <<handles, qt>>

\* the Toggle Fullscreen action is triggered
ToggleFullscreen ==
    /\ qt.buttons = {} /\ ~qt.menu /\ ~qt.grab
    /\ app' = toggle_fullscreen(St).app
    /\ hop' = PtrOp("fullscreen", "menu", "none", NoRect, <<0, 0>>, hop.n, FALSE)
    /\ UNCHANGED <<handles, qt>>

\* ViewMeshApp._perform_context_menu_move on a timeout of context_move_timer,
\* the pointer at delta from where the move began
Tick(delta) ==
    /\ qt.timer
    /\ app' = IF app.is_context_menu_moving
              THEN [app EXCEPT !.geometry.x = app.context_menu_window_start_position[1] + delta[1],
                               !.geometry.y = app.context_menu_window_start_position[2] + delta[2]]
              ELSE app
    /\ hop' = PtrOp("tick", "main", "none", NoRect, delta, hop.n, FALSE)
    /\ UNCHANGED <<handles, qt>>

\* ViewMeshApp.__init__: no drag of any kind is in progress
IdleApp(geometry, min_hint, win32) ==
    [geometry |-> geometry, min_hint |-> min_hint, win32 |-> win32, state |-> "normal",
     glyph |-> "maximize", was_maximized_before_fullscreen |-> FALSE, cursor |-> "arrow",
     dragging |-> FALSE, drag_start_position |-> NoPoint, window_start_position |-> NoPoint,
     is_context_menu_moving |-> FALSE,
     context_menu_drag_start_position |-> NoPoint,
     context_menu_window_start_position |-> NoPoint,
     inspector_window_instance |-> 0, closed |-> FALSE]

IdleQt == [buttons |-> {}, receiver |-> "none", grab |-> FALSE, menu |-> FALSE,
           override |-> 0, timer |-> FALSE, hover |-> "none"]

IdleHop ==
    [op |-> "init", who |-> "none", button |-> "none", start |-> NoRect, delta |-> <<0, 0>>,
     n |-> 0, resized |-> FALSE, moving |-> FALSE,
     dragging |-> FALSE, over |-> "none", native |-> FALSE, main |-> FALSE]

PointerIdle ==
    /\ app = IdleApp(Rect(0, 0, 640, 480), <<0, 0>>, FALSE)
    /\ handles = [h \in HandlePositions |-> IdleHandle]
    /\ qt = IdleQt
    /\ hop = IdleHop

\* ------------------------------------------------------------------------
\* HighlightOverlay and the inspector's row handlers
\* ------------------------------------------------------------------------
None == "None"

WidgetIds == {"W1", "W2", "W3"}

\* the rectangle of each widget in the main window's coordinates
WidgetRect(w) ==
    CASE w = "W1" -> Rect(0, 0, 640, 30)
      [] w = "W2" -> Rect(0, 30, 200, 400)
      [] w = "W3" -> Rect(200, 30, 440, 400)

\* QWidget.mapToGlobal(QPoint(0, 0)) of a widget of the main window
mapToGlobal(w) == <<app.geometry.x + widgets[w].rect.x, app.geometry.y + widgets[w].rect.y>>

\* QWidget.mapFromGlobal of the main window
mapFromGlobal(p) == <<p[1] - app.geometry.x, p[2] - app.geometry.y>>

\* QWidget.rect of the main window
ParentRect == Rect(0, 0, app.geometry.w, app.geometry.h)

\* HighlightOverlay.__init__
NewOverlay ==
    [target_rect |-> NoRect, is_sticky |-> FALSE, is_highlighting |-> FALSE,
     shown |-> FALSE, geometry |-> ParentRect]

IsVisible(w) == w # None /\ widgets[w].visible

\* clear_highlight without the test of is_sticky
ClearAlways(ov, force_clear_sticky) ==
    [ov EXCEPT !.is_highlighting = FALSE, !.is_sticky = FALSE,
               !.target_rect = NoRect, !.shown = FALSE]

\* clear_highlight that keeps the rectangle it was drawing
ClearKeepsRect(ov, force_clear_sticky) ==
    IF ov.is_sticky /\ ~force_clear_sticky
    THEN ov
    ELSE [ov EXCEPT !.is_highlighting = FALSE, !.is_sticky = FALSE, !.shown = FALSE]

\* HighlightOverlay.clear_highlight: the overlay it leaves
Clear(ov, force_clear_sticky) ==
    IF ov.is_sticky /\ ~force_clear_sticky
    THEN ov
    ELSE [ov EXCEPT !.is_highlighting = FALSE, !.is_sticky = FALSE,
                    !.target_rect = NoRect, !.shown = FALSE]

\* highlight_widget that leaves the overlay alone for a target that is None
\* or not visible
HighlightNoClear(ov, target_widget, sticky) ==
    IF IsVisible(target_widget)
    THEN LET tl == mapFromGlobal(mapToGlobal(target_widget))
         IN  [target_rect |-> Rect(tl[1], tl[2], widgets[target_widget].rect.w,
                                   widgets[target_widget].rect.h),
              is_sticky |-> sticky, is_highlighting |-> TRUE, shown |-> TRUE,
              geometry |-> ParentRect]
    ELSE ov

\* HighlightOverlay.highlight_widget: the overlay it leaves
Highlight(ov, target_widget, sticky) ==
    IF IsVisible(target_widget)
    THEN LET tl == mapFromGlobal(mapToGlobal(target_widget))
         IN  [target_rect |-> Rect(tl[1], tl[2], widgets[target_widget].rect.w,
                                   widgets[target_widget].rect.h),
              is_sticky |-> sticky, is_highlighting |-> TRUE, shown |-> TRUE,
              geometry |-> ParentRect]
    ELSE Clear(ov, FALSE)

\* what an operation saw: the handler (op) and the row it was for, the call
\* it made on the overlay (call, target, flag), whether the target was
\* visible, the overlay and the sticky widget before, and whether the
\* operation before it was a plain clear of a sticky overlay
OvOp(op, row, call, target, flag) ==
    [op |-> op, row |-> row, call |-> call, target |-> target, flag |-> flag,
     visible |-> IsVisible(target), before |-> overlay,
     prev |-> inspector.sticky_highlighted_widget,
     chain |-> oop.call = "clear" /\ ~oop.flag /\ oop.before.is_sticky]

\* a call of highlight_widget
highlight_widget(target_widget, sticky) ==
    /\ overlay' = Highlight(overlay, target_widget, sticky)
    /\ oop' = OvOp("highlight_widget", None, "highlight", target_widget, sticky)
    /\ UNCHANGED <<widgets, inspector>>

\* a call of clear_highlight
clear_highlight(force_clear_sticky) ==
    /\ overlay' = Clear(overlay, force_clear_sticky)
    /\ oop' = OvOp("clear_highlight", None, "clear", None, force_clear_sticky)
    /\ UNCHANGED <<widgets, inspector>>

\* a widget of the main window is shown or hidden
SetVisible(w, v) ==
    /\ widgets[w].visible # v
    /\ widgets' = [widgets EXCEPT ![w].visible = v]
    /\ oop' = [oop EXCEPT !.op = "visible", !.call = "none", !.row = w, !.chain = FALSE]
    /\ UNCHANGED <<overlay, inspector>>

\* InspectorWindow._on_hierarchy_label_hover_enter: the pointer enters a row
hover_enter(target_widget) ==
    /\ inspector.hover = None
    /\ LET sticky == inspector.sticky_highlighted_widget = target_widget
       IN  /\ overlay' = Highlight(overlay, target_widget, sticky)
           /\ oop' = OvOp("hover_enter", target_widget, "highlight", target_widget, sticky)
    /\ inspector' = [inspector EXCEPT !.hover = target_widget]
    /\ UNCHANGED widgets

\* hover_leave that clears the overlay whether or not a sticky widget exists
hover_leave_clear(target_widget) ==
    /\ inspector.hover = target_widget
    /\ overlay' = Clear(overlay, TRUE)
    /\ LET sw == inspector.sticky_highlighted_widget
       IN  oop' = IF sw # None
                  THEN OvOp("hover_leave", target_widget, "highlight", sw, TRUE)
                  ELSE OvOp("hover_leave", target_widget, "clear", None, TRUE)
    /\ inspector' = [inspector EXCEPT !.hover = None]
    /\ UNCHANGED widgets

\* InspectorWindow._on_hierarchy_label_hover_leave: the pointer leaves the row
hover_leave(target_widget) ==
    /\ inspector.hover = target_widget
    /\ LET sw == inspector.sticky_highlighted_widget
       IN  IF sw # None
           THEN /\ overlay' = Highlight(overlay, sw, TRUE)
                /\ oop' = OvOp("hover_leave", target_widget, "highlight", sw, TRUE)
           ELSE /\ overlay' = Clear(overlay, TRUE)
                /\ oop' = OvOp("hover_leave", target_widget, "clear", None, TRUE)
    /\ inspector' = [inspector EXCEPT !.hover = None]
    /\ UNCHANGED widgets

\* InspectorWindow._on_hierarchy_label_clicked: a click on the row under the
\* pointer
clicked(target_widget) ==
    /\ inspector.hover = target_widget
    /\ IF inspector.sticky_highlighted_widget = target_widget
       THEN /\ inspector' = [inspector EXCEPT !.sticky_highlighted_widget = None]
            /\ overlay' = Clear(overlay, TRUE)
            /\ oop' = OvOp("clicked", target_widget, "clear", None, TRUE)
       ELSE /\ inspector' = [inspector EXCEPT !.sticky_highlighted_widget = target_widget]
            /\ overlay' = Highlight(overlay, target_widget, TRUE)
            /\ oop' = OvOp("clicked", target_widget, "highlight", target_widget, TRUE)
    /\ UNCHANGED widgets

\* InspectorWindow.__init__: no sticky widget, no row entered. windows are
\* the InspectorWindow objects that are open, made counts the ones ever
\* created, calls are the geometry calls of the last operation, in order
NewInspector(windows, made) ==
    [sticky_highlighted_widget |-> None, hover |-> None,
     windows |-> windows, made |-> made, calls |-> <<>>]

IdleOop ==
    [op |-> "init", row |-> None, call |-> "none", target |-> None, flag |-> FALSE,
     visible |-> FALSE, before |-> NewOverlay, prev |-> None, chain |-> FALSE]

\* no inspector has been opened
OverlayIdle ==
    /\ overlay = NewOverlay
    /\ inspector = NewInspector({}, 0)
    /\ oop = IdleOop

\* the widgets of the main window 640 wide and 480 high
AllShown == [w \in WidgetIds |-> [visible |-> TRUE, rect |-> WidgetRect(w)]]

\* ------------------------------------------------------------------------
\* InspectorWindow: the two renderings of the widget tree
\* ------------------------------------------------------------------------
\* the objects below the main window in one tree; the main window is node 0
MaxNodes == 3

\* what a child object can be: a plain QWidget, an EdgeResizeHandle of the
\* main window, the InspectorWindow itself, an EdgeResizeHandle whose
\* parent_window is the inspector, a QObject that is not a QWidget
Kinds == {"widget", "handle", "inspector", "own_handle", "object"}

Node(parent, kind, hidden) == [parent |-> parent, kind |-> kind, hidden |-> hidden]

\* node c is created after its parent; children() lists them in that order
Trees ==
    { t \in UNION { [1..n -> [parent : 0..(MaxNodes - 1), kind : Kinds, hidden : {FALSE}]] :
                        n \in 1..MaxNodes } :
        \A c \in DOMAIN t :
            /\ t[c].parent < c
            /\ t[c].parent # 0 => t[t[c].parent].kind \in {"widget", "inspector"} }

KindOf(t, w) == IF w = 0 THEN "main" ELSE t[w].kind

\* isinstance(child_obj, QWidget)
IsQWidget(t, c) == t[c].kind # "object"

\* child_widget == self or child_widget.parent_window == self
IsOwn(t, c) == t[c].kind \in {"inspector", "own_handle"}

\* isinstance(child_widget, EdgeResizeHandle)
IsHandle(t, c) == t[c].kind \in {"handle", "own_handle"}

\* QWidget.isVisible(): neither the widget nor an ancestor is hidden
RECURSIVE isVisible(_, _)
isVisible(t, w) ==
    IF w = 0 THEN TRUE ELSE ~t[w].hidden /\ isVisible(t, t[w].parent)

\* _build_visual_widget_ui: the rows added to the layout for widget w, and
\* (VisualFrom) for those of its children that come at or after object c
RECURSIVE build_visual_widget_ui(_, _), VisualFrom(_, _, _)
\* the walk over the children that gives up at the first child that is no
\* QWidget
VisualFromStops(t, w, c) ==
    IF c > Len(t) THEN <<>>
    ELSE IF t[c].parent = w /\ ~IsQWidget(t, c) THEN <<>>
    ELSE (IF t[c].parent = w /\ ~IsOwn(t, c) /\ ~IsHandle(t, c)
          THEN build_visual_widget_ui(t, c)
          ELSE <<>>) \o VisualFrom(t, w, c + 1)

VisualFrom(t, w, c) ==
    IF c > Len(t) THEN <<>>
    ELSE (IF t[c].parent = w /\ IsQWidget(t, c) /\ ~IsOwn(t, c) /\ ~IsHandle(t, c)
          THEN build_visual_widget_ui(t, c)
          ELSE <<>>) \o VisualFrom(t, w, c + 1)

build_visual_widget_ui(t, w) == <<w>> \o VisualFrom(t, w, w + 1)

\* _build_widget_xml_string: the elements written for widget w, and (XmlFrom)
\* for those of its children that come at or after object c
RECURSIVE build_widget_xml_string(_, _), XmlFrom(_, _, _)
XmlFrom(t, w, c) ==
    IF c > Len(t) THEN <<>>
    ELSE (IF t[c].parent # w \/ ~IsQWidget(t, c) \/ IsOwn(t, c) THEN <<>>
          ELSE IF IsHandle(t, c) THEN <<c>>
          ELSE build_widget_xml_string(t, c)) \o XmlFrom(t, w, c + 1)

build_widget_xml_string(t, w) == <<w>> \o XmlFrom(t, w, w + 1)

\* _refresh_visual_tree_view: the old rows are dropped and the tree is walked
refresh_visual_tree_view ==
    /\ walk' = [walk EXCEPT !.op = "rows", !.shown = "rows",
                            !.rows = build_visual_widget_ui(tree, 0)]
    /\ UNCHANGED tree

\* _refresh_xml_hierarchy_view
refresh_xml_hierarchy_view ==
    /\ walk' = [walk EXCEPT !.op = "xml", !.shown = "xml",
                            !.xml = build_widget_xml_string(tree, 0)]
    /\ UNCHANGED tree

\* a widget of the main window is hidden or shown again
SetHidden(c, h) ==
    /\ c \in DOMAIN tree /\ IsQWidget(tree, c)
    /\ tree[c].hidden # h
    /\ tree' = [tree EXCEPT ![c].hidden = h]
    /\ walk' = [walk EXCEPT !.op = "hidden"]

\* the inspector before its first refresh: the markup view is empty and shown
NoWalk == [op |-> "init", shown |-> "xml", rows |-> <<>>, xml |-> <<>>]

WalkIdle == tree = <<>> /\ walk = NoWalk

\* ------------------------------------------------------------------------
\* WindowGeometryManager
\* ------------------------------------------------------------------------
GeoOp(op, target, saved, chain, effect) ==
    [op |-> op, target |-> target, saved |-> saved, chain |-> chain, effect |-> effect,
     ref |-> 0]

\* QWidget.resize: the size is bounded below by the window's minimum size
ResizeWidth(w) == Max(w, MinWindowWidth)

ResizeHeight(h) == Max(h, MinWindowHeight)

\* the visibility margin of restore_geometry
Margin == 20

\* TargetScreen that looks a stored position of (0,0) up like any other
TargetScreenAnyPosition(ref_visible, ref_screen) ==
    LET by_name == IF settings.screen_name # ""
                   THEN FirstScreen({i \in ScreenIds :
                                        screens[i].name = settings.screen_name})
                   ELSE 0
        by_pos  == IF by_name = 0
                   THEN FirstScreen({i \in ScreenIds :
                                        ContainsPoint(screens[i].geometry,
                                            settings.position[1], settings.position[2])})
                   ELSE by_name
        by_ref  == IF by_pos = 0
                   THEN IF window.secondary /\ ref_visible THEN ref_screen
                        ELSE primaryScreen
                   ELSE by_pos
    IN  IF by_ref = 0 THEN primaryScreen ELSE by_ref

\* restore_geometry, step 1 to 3: index of the target display (0: none).
\* ref_visible and ref_screen are main_app_window_ref.isVisible() and
\* main_app_window_ref.screen()
TargetScreen(ref_visible, ref_screen) ==
    LET by_name == IF settings.screen_name # ""
                   THEN FirstScreen({i \in ScreenIds :
                                        screens[i].name = settings.screen_name})
                   ELSE 0
        by_pos  == IF by_name = 0 /\ settings.position # <<0, 0>>
                   THEN FirstScreen({i \in ScreenIds :
                                        ContainsPoint(screens[i].geometry,
                                            settings.position[1], settings.position[2])})
                   ELSE by_name
        by_ref  == IF by_pos = 0
                   THEN IF window.secondary /\ ref_visible THEN ref_screen
                        ELSE primaryScreen
                   ELSE by_pos
    IN  IF by_ref = 0 THEN primaryScreen ELSE by_ref

\* the candidate position: relative when a screen context was saved
UseRelative ==
    settings.screen_name # "" /\ settings.screen_geometry # <<0, 0, 0, 0>>

CandidatePos(avail) ==
    IF UseRelative
    THEN << avail.x + IntOfRelTimes(settings.relative_position[1], avail.w),
            avail.y + IntOfRelTimes(settings.relative_position[2], avail.h) >>
    ELSE settings.position

\* ClampAxis without any clamping
ClampAxisNone(a0, alen, wlen, pos) == pos

\* ClampAxis without its second step
ClampAxisFirstOnly(a0, alen, wlen, pos) ==
    Max(a0 - wlen + Margin, Min(pos, a0 + alen - Margin))

\* the two clamping steps along one axis: origin and extent of the available
\* area, extent of the window, candidate coordinate
ClampAxis(a0, alen, wlen, pos) ==
    LET p1 == Max(a0 - wlen + Margin, Min(pos, a0 + alen - Margin))
    IN  Max(a0, Min(p1, a0 + alen - wlen))

\* restore_geometry, called on a window that has just been shown
restore_geometry(ref_visible, ref_screen) ==
    LET w == ResizeWidth(settings.size[1])
        h == ResizeHeight(settings.size[2])
        t == TargetScreen(ref_visible, ref_screen)
        chain == gop.op = "save" /\ gop.effect
        saved == IF chain THEN gop.saved ELSE NoRect
    IN  /\ window.visible /\ ~window.minimized
        /\ IF t = 0
           THEN LET r == Rect(settings.position[1], settings.position[2], w, h)
                IN  window' = [window EXCEPT !.geometry = r, !.normal = r]
           ELSE LET avail == screens[t].available
                    c == CandidatePos(avail)
                    r == Rect(ClampAxis(avail.x, avail.w, w, c[1]),
                              ClampAxis(avail.y, avail.h, h, c[2]), w, h)
                IN  window' = [window EXCEPT !.geometry = r, !.normal = r]
        /\ gop' = [GeoOp("restore", t, saved, chain, TRUE)
                       EXCEPT !.ref = IF window.secondary /\ ref_visible THEN ref_screen ELSE 0]
        /\ UNCHANGED <<screens, settings>>

\* the relative coordinate without the clamp to [0, 1]
RelClampNone(c, a0, alen) == RelNorm(c - a0, alen)

\* save_geometry: max(0.0, min(1.0, (c - a0) / alen)) for alen > 0
RelClamp(c, a0, alen) ==
    IF c - a0 <= 0 THEN Rel(0, 1)
    ELSE IF c - a0 >= alen THEN Rel(1, 1)
    ELSE RelNorm(c - a0, alen)

\* a save that never returns early
NotSavableNever == FALSE

\* save_geometry's early return: the window is hidden and not minimized
NotSavable == ~window.visible /\ ~window.minimized

\* save_geometry; win_screen is what window.screen() answers
save_geometry(win_screen) ==
    IF NotSavable
    THEN /\ gop' = GeoOp("save", 0, NoRect, FALSE, FALSE)
         /\ UNCHANGED <<screens, settings, window>>
    ELSE
    LET g == IF window.minimized THEN window.normal ELSE window.geometry
        at == screenAt(Center(g))
        cs == IF at = 0 THEN win_screen ELSE at
    IN  /\ IF cs # 0
           THEN LET sg == screens[cs].geometry
                    avail == screens[cs].available
                IN  settings' =
                      [ size |-> <<g.w, g.h>>,
                        position |-> <<g.x, g.y>>,
                        screen_name |-> screens[cs].name,
                        screen_geometry |-> <<sg.x, sg.y, sg.w, sg.h>>,
                        relative_position |->
                            IF avail.w > 0 /\ avail.h > 0
                            THEN <<RelClamp(g.x, avail.x, avail.w),
                                   RelClamp(g.y, avail.y, avail.h)>>
                            ELSE <<Rel(1, 10), Rel(1, 10)>> ]
           ELSE settings' =
                      [ size |-> <<g.w, g.h>>,
                        position |-> <<g.x, g.y>>,
                        screen_name |-> "",
                        screen_geometry |-> <<0, 0, 0, 0>>,
                        relative_position |-> <<Rel(1, 10), Rel(1, 10)>> ]
        /\ gop' = GeoOp("save", cs, g, FALSE, TRUE)
        /\ UNCHANGED <<screens, window>>

\* WindowSettings.from_settings / InspectorWindowSettings.from_settings at
\* start-up, with the values found in the settings store
from_settings(size, position, rel, name, sgeo) ==
    /\ gop.op = "init"
    /\ settings' = [ size |-> size, position |-> position, relative_position |-> rel,
                     screen_name |-> name, screen_geometry |-> sgeo ]
    /\ gop' = GeoOp("load", 0, NoRect, FALSE, TRUE)
    /\ UNCHANGED <<screens, window>>

\* the window is shown / hidden / minimized / brought back
ShowWindow ==
    /\ ~window.visible
    /\ window' = [window EXCEPT !.visible = TRUE]
    /\ gop' = GeoOp("state", 0, NoRect, FALSE, TRUE)
    /\ UNCHANGED <<screens, settings>>

HideWindow ==
    /\ window.visible /\ ~window.minimized
    /\ window' = [window EXCEPT !.visible = FALSE]
    /\ gop' = GeoOp("state", 0, NoRect, FALSE, TRUE)
    /\ UNCHANGED <<screens, settings>>

MinimizeWindow ==
    /\ window.visible /\ ~window.minimized
    /\ window' = [window EXCEPT !.minimized = TRUE, !.normal = window.geometry,
                                !.geometry = MinimizedRect]
    /\ gop' = GeoOp("state", 0, NoRect, FALSE, TRUE)
    /\ UNCHANGED <<screens, settings>>

ShowNormal ==
    /\ window.minimized
    /\ window' = [window EXCEPT !.minimized = FALSE, !.visible = TRUE,
                                !.geometry = window.normal]
    /\ gop' = GeoOp("state", 0, NoRect, FALSE, TRUE)
    /\ UNCHANGED <<screens, settings>>

\* the user moves or resizes the visible window, keeping part of it on a display
UserMove(r) ==
    /\ window.visible /\ ~window.minimized
    /\ r # window.geometry
    /\ \E i \in ScreenIds : Intersects(r, screens[i].geometry)
    /\ window' = [window EXCEPT !.geometry = r, !.normal = r]
    /\ gop' = GeoOp("state", 0, NoRect, FALSE, TRUE)
    /\ UNCHANGED <<screens, settings>>

InspectorDefaults ==
    [ size              |-> <<800, 600>>,
      position          |-> <<150, 150>>,
      relative_position |-> <<Rel(3, 20), Rel(3, 20)>>,
      screen_name       |-> "",
      screen_geometry   |-> <<0, 0, 0, 0>> ]

\* the answers of main_app_window_ref.isVisible() and .screen(), which
\* restore_geometry asks for only when it manages a secondary window and
\* neither the stored name nor the stored position resolves a display
RefAnswers ==
    IF window.secondary /\ TargetScreen(FALSE, 0) = primaryScreen
    THEN BOOLEAN \X AnyScreen
    ELSE {<<TRUE, primaryScreen>>}

\* ------------------------------------------------------------------------
\* AppConfig.load: the tuple-valued keys of the settings store
\* ------------------------------------------------------------------------
\* a str is a sequence of characters
DigitChars == {"0", "1", "2", "3", "4", "5", "6", "7", "8", "9"}

DigitVal(c) ==
    CASE c = "0" -> 0 [] c = "1" -> 1 [] c = "2" -> 2 [] c = "3" -> 3 [] c = "4" -> 4
      [] c = "5" -> 5 [] c = "6" -> 6 [] c = "7" -> 7 [] c = "8" -> 8 [] c = "9" -> 9

\* str.lstrip(chars), str.rstrip(chars), str.strip(chars)
RECURSIVE LStrip(_, _)
LStrip(s, chars) ==
    IF s # <<>> /\ Head(s) \in chars THEN LStrip(Tail(s), chars) ELSE s

RECURSIVE RStrip(_, _)
RStrip(s, chars) ==
    IF s # <<>> /\ s[Len(s)] \in chars THEN RStrip(SubSeq(s, 1, Len(s) - 1), chars) ELSE s

Strip(s, chars) == RStrip(LStrip(s, chars), chars)

\* str.split(","): at least one part, one more for every comma
RECURSIVE Split(_)
Split(s) ==
    IF \A i \in 1..Len(s) : s[i] # ","
    THEN <<s>>
    ELSE LET i == CHOOSE k \in 1..Len(s) : s[k] = "," /\ \A j \in 1..(k - 1) : s[j] # ","
         IN  <<SubSeq(s, 1, i - 1)>> \o Split(SubSeq(s, i + 1, Len(s)))

AllDigits(s) == \A i \in 1..Len(s) : s[i] \in DigitChars

RECURSIVE DigitsValue(_)
DigitsValue(s) ==
    IF s = <<>> THEN 0 ELSE 10 * DigitsValue(SubSeq(s, 1, Len(s) - 1)) + DigitVal(s[Len(s)])

RECURSIVE Pow10(_)
Pow10(k) == IF k = 0 THEN 1 ELSE 10 * Pow10(k - 1)

\* the outcome of a conversion: a value, or ValueError
Value(v) == [ok |-> TRUE, v |-> v]

ValueError == [ok |-> FALSE, v |-> <<>>]

\* the text without surrounding blanks and without its sign, and the sign
Unsigned(s) ==
    LET t == Strip(s, {" "})
    IN  IF t # <<>> /\ Head(t) \in {"-", "+"} THEN Tail(t) ELSE t

SignOf(s) ==
    LET t == Strip(s, {" "})
    IN  IF t # <<>> /\ Head(t) = "-" THEN -1 ELSE 1

\* int(str): blanks around, an optional sign, one or more digits
ParseInt(s) ==
    LET d == Unsigned(s)
    IN  IF d # <<>> /\ AllDigits(d) THEN Value(SignOf(s) * DigitsValue(d)) ELSE ValueError

\* float(str): blanks around, an optional sign, digits with at most one point
\* and at least one digit; the value is the float nearest to the decimal
ParseFloat(s) ==
    LET d == Unsigned(s)
        points == {i \in 1..Len(d) : d[i] = "."}
        whole == IF points = {} THEN d ELSE SubSeq(d, 1, (CHOOSE i \in points : TRUE) - 1)
        frac == IF points = {} THEN <<>>
                ELSE SubSeq(d, (CHOOSE i \in points : TRUE) + 1, Len(d))
    IN  IF /\ Cardinality(points) <= 1
           /\ AllDigits(whole) /\ AllDigits(frac)
           /\ Len(whole) + Len(frac) > 0
        THEN Value(RelNorm(SignOf(s) * (DigitsValue(whole) * Pow10(Len(frac))
                                            + DigitsValue(frac)),
                           Pow10(Len(frac))))
        ELSE ValueError

Convert(element_type, s) == IF element_type = "int" THEN ParseInt(s) ELSE ParseFloat(s)

\* what QSettings.value(key) answers: None, a QSize, a QPoint, a str, a list of str
\* (p holds the pair of a QSize or QPoint, s the characters of a str, l the
\* elements of a list)
NoValue == [type |-> "None", p |-> <<>>, s |-> <<>>, l |-> <<>>]

QSize(w, h) == [type |-> "QSize", p |-> <<w, h>>, s |-> <<>>, l |-> <<>>]

QPoint(x, y) == [type |-> "QPoint", p |-> <<x, y>>, s |-> <<>>, l |-> <<>>]

Str(s) == [type |-> "str", p |-> <<>>, s |-> s, l |-> <<>>]

List(l) == [type |-> "list", p |-> <<>>, s |-> <<>>, l |-> l]

\* str(list): the elements in quotes, separated by a comma and a blank
RECURSIVE ReprItems(_)
ReprItems(l) ==
    IF l = <<>> THEN <<>>
    ELSE <<"'">> \o Head(l) \o <<"'">>
         \o (IF Len(l) > 1 THEN <<",", " ">> ELSE <<>>) \o ReprItems(Tail(l))

\* str(raw_value) in _parse_tuple_setting
StrOf(raw) ==
    IF raw.type = "str" THEN raw.s ELSE <<"[">> \o ReprItems(raw.l) \o <<"]">>

\* the conversions of all parts, in order
Converted(element_type, parts) == [i \in 1..Len(parts) |-> Convert(element_type, parts[i])]

AllOk(results) == \A i \in 1..Len(results) : results[i].ok

Values(results) == [i \in 1..Len(results) |-> results[i].v]

\* WindowSettings._parse_tuple_setting: every failure gives the default
parse_tuple_setting(raw_value, element_type, num_elements, default_tuple_value) ==
    IF raw_value = NoValue THEN default_tuple_value
    ELSE LET parts == Split(Strip(StrOf(raw_value), {"(", ")"}))
             parsed == Converted(element_type, [i \in 1..Len(parts) |-> Strip(parts[i], {" "})])
         IN  IF Len(parts) # num_elements \/ ~AllOk(parsed)
             THEN default_tuple_value
             ELSE Values(parsed)

\* the outcome of loading one field: the field's value, or an exception
\* that leaves the loader
Loaded(v) == [raised |-> FALSE, v |-> v]

Raised == [raised |-> TRUE, v |-> <<>>]

\* WindowSettings.from_settings, the size / position block: a QSize (QPoint)
\* is taken, a str of two parts is converted with int(), which is not in
\* a try block; any other value leaves the default
PairOfMain(raw, native, default) ==
    IF raw.type = native THEN Loaded(raw.p)
    ELSE IF raw.type = "str"
    THEN LET parts == Split(Strip(raw.s, {"(", ")"}))
             parsed == Converted("int", parts)
         IN  IF Len(parts) # 2 THEN Loaded(default)
             ELSE IF AllOk(parsed) THEN Loaded(Values(parsed))
             ELSE Raised
    ELSE Loaded(default)

\* InspectorWindowSettings.from_settings, the size / position block: the
\* str branch catches ValueError, the list branch converts without a try
PairOfInspector(raw, native, default) ==
    IF raw.type = native THEN Loaded(raw.p)
    ELSE IF raw.type = "str"
    THEN LET parts == Split(Strip(raw.s, {"(", ")"}))
             parsed == Converted("int", parts)
         IN  IF Len(parts) = 2 /\ AllOk(parsed) THEN Loaded(Values(parsed)) ELSE Loaded(default)
    ELSE IF raw.type = "list" /\ Len(raw.l) = 2
    THEN LET parsed == Converted("int", raw.l)
         IN  IF AllOk(parsed) THEN Loaded(Values(parsed)) ELSE Raised
    ELSE Loaded(default)

Fields == {"size", "position", "relative_position", "screen_geometry"}

Prefixes == {"window/", "inspector_window/"}

Keys == Prefixes \X Fields

\* WindowSettings.from_settings on the store q
WindowSettings_from_settings(q) ==
    LET size == PairOfMain(q[<<"window/", "size">>], "QSize", DefaultSettings.size)
        position == PairOfMain(q[<<"window/", "position">>], "QPoint", DefaultSettings.position)
    IN  IF size.raised \/ position.raised THEN Raised
        ELSE Loaded([ size |-> size.v,
                      position |-> position.v,
                      relative_position |->
                          parse_tuple_setting(q[<<"window/", "relative_position">>], "float", 2,
                                              DefaultSettings.relative_position),
                      screen_geometry |->
                          parse_tuple_setting(q[<<"window/", "screen_geometry">>], "int", 4,
                                              DefaultSettings.screen_geometry) ])

\* InspectorWindowSettings.from_settings on the store q
InspectorWindowSettings_from_settings(q) ==
    LET size == PairOfInspector(q[<<"inspector_window/", "size">>], "QSize",
                                InspectorDefaults.size)
        position == PairOfInspector(q[<<"inspector_window/", "position">>], "QPoint",
                                    InspectorDefaults.position)
    IN  IF size.raised \/ position.raised THEN Raised
        ELSE Loaded([ size |-> size.v,
                      position |-> position.v,
                      relative_position |->
                          parse_tuple_setting(q[<<"inspector_window/", "relative_position">>],
                                              "float", 2, InspectorDefaults.relative_position),
                      screen_geometry |->
                          parse_tuple_setting(q[<<"inspector_window/", "screen_geometry">>],
                                              "int", 4, InspectorDefaults.screen_geometry) ])

NoSettings == [size |-> <<>>, position |-> <<>>, relative_position |-> <<>>,
               screen_geometry |-> <<>>]

\* AppConfig.load: both loaders in turn; an exception of either leaves load
AppConfig_load ==
    LET main == WindowSettings_from_settings(qsettings)
        insp == InspectorWindowSettings_from_settings(qsettings)
    IN  /\ config' = IF main.raised \/ insp.raised
                     THEN [config EXCEPT !.op = "load", !.raised = TRUE,
                                         !.settings = NoSettings,
                                         !.inspector_settings = NoSettings]
                     ELSE [config EXCEPT !.op = "load", !.raised = FALSE,
                                         !.settings = main.v,
                                         !.inspector_settings = insp.v]
        /\ UNCHANGED qsettings

\* the values written to the store between two runs of one check
MaxEdits == 2

StoredStrs ==
    { <<"(", "8", ",", "5", ")">>,
      <<"8", ",", " ", "5">>,
      <<"(", "x", ",", "5", ")">>,
      <<"(", "0", ".", "5", ",", " ", "1", ".", "5", ")">>,
      <<"8", ",", "5", ",", "2">>,
      <<"(", "0", ",", "-", "4", ",", "8", ",", "5", ")">>,
      <<>> }

StoredLists == { << <<"8">>, <<"5">> >>, << <<"x">>, <<"5">> >> }

StoredValues(field) ==
    {NoValue} \cup {Str(s) : s \in StoredStrs} \cup {List(l) : l \in StoredLists}
        \cup (IF field = "size" THEN {QSize(800, 600)}
              ELSE IF field = "position" THEN {QPoint(10, 20)} ELSE {})

\* the store is written between runs: by an earlier version, by hand
setValue(key, value) ==
    /\ config.n < MaxEdits
    /\ qsettings[key] # value
    /\ qsettings' = [qsettings EXCEPT ![key] = value]
    /\ config' = [config EXCEPT !.op = "edit", !.n = config.n + 1]

EmptyStore == [k \in Keys |-> NoValue]

NoConfig == [op |-> "init", n |-> 0, raised |-> FALSE, settings |-> NoSettings,
             inspector_settings |-> NoSettings]

ConfigIdle == qsettings = EmptyStore /\ config = NoConfig

GeoInit ==
    /\ PointerIdle
    /\ OverlayIdle /\ widgets = AllShown
    /\ WalkIdle
    /\ ConfigIdle
    /\ screens \in DisplayConfigs
    /\ \E sec \in BOOLEAN :
          /\ window = [ geometry |-> Rect(0, 0, 640, 480), normal |-> Rect(0, 0, 640, 480),
                        visible |-> FALSE, minimized |-> FALSE, secondary |-> sec ]
          /\ settings = IF sec THEN InspectorDefaults ELSE DefaultSettings
    /\ gop = GeoOp("init", 0, NoRect, FALSE, FALSE)

GeoNext ==
    \/ GeoFrame /\ \E size \in StoredSizes, position \in StoredPositions, rel \in StoredRels,
          scr \in StoredScreens :
          from_settings(size, position, rel, scr[1], scr[2])
    \/ GeoFrame /\ \E ref \in RefAnswers : restore_geometry(ref[1], ref[2])
    \/ GeoFrame /\ \E win_screen \in AnyScreen : save_geometry(win_screen)
    \/ GeoFrame /\ ShowWindow
    \/ GeoFrame /\ HideWindow
    \/ GeoFrame /\ MinimizeWindow
    \/ GeoFrame /\ ShowNormal
    \/ GeoFrame /\ \E r \in UserRects : UserMove(r)

SpecGeom == GeoInit /\ [][GeoNext]_vars

\* displays whose available rectangle has zero width or zero height
Z1 == Screen("Z1", Rect(0, 0, 1920, 1080), Rect(0, 0, 0, 1040))

Z2 == Screen("Z2", Rect(1920, 0, 1366, 768), Rect(1920, 40, 1366, 0))

ZeroAreaConfigs == {<<Z1>>, <<Z1, Z2>>, <<D1, Z2>>}

\* the manager's life on a desktop with such a display
ZeroAreaInit ==
    /\ PointerIdle
    /\ OverlayIdle /\ widgets = AllShown
    /\ WalkIdle
    /\ ConfigIdle
    /\ screens \in ZeroAreaConfigs
    /\ \E sec \in BOOLEAN :
          /\ window = [ geometry |-> Rect(0, 0, 640, 480), normal |-> Rect(0, 0, 640, 480),
                        visible |-> FALSE, minimized |-> FALSE, secondary |-> sec ]
          /\ settings = IF sec THEN InspectorDefaults ELSE DefaultSettings
    /\ gop = GeoOp("init", 0, NoRect, FALSE, FALSE)

SpecZeroArea == ZeroAreaInit /\ [][GeoNext]_vars

\* one display, the main window not yet shown, its settings the defaults
GeoIdle ==
    /\ screens = <<D1>>
    /\ window = [geometry |-> Rect(0, 0, 640, 480), normal |-> Rect(0, 0, 640, 480),
                 visible |-> FALSE, minimized |-> FALSE, secondary |-> FALSE]
    /\ settings = DefaultSettings
    /\ gop = GeoOp("init", 0, NoRect, FALSE, FALSE)

\* ------------------------------------------------------------------------
\* Resizing by the edge handles
\* ------------------------------------------------------------------------
\* the drags of one run
MaxDrags == 1

StartGeometries == {Rect(100, 100, 400, 300), Rect(0, 0, 150, 120), Rect(-50, 20, 1000, 700)}

MinimumSizeHints == {<<100, 100>>, <<0, 0>>, <<-1, -1>>, <<300, 200>>}

Deltas == {<<350, 250>>, <<300, 200>>, <<-350, -250>>, <<50, -40>>, <<-50, 40>>, <<0, 0>>,
           <<450, 350>>, <<-450, -350>>}

ResizeInit ==
    /\ \E g \in StartGeometries, mh \in MinimumSizeHints : app = IdleApp(g, mh, FALSE)
    /\ handles = [h \in HandlePositions |-> IdleHandle]
    /\ qt = IdleQt
    /\ hop = IdleHop
    /\ GeoIdle
    /\ OverlayIdle /\ widgets = AllShown
    /\ WalkIdle
    /\ ConfigIdle

ResizeNext ==
    \/ PointerFrame /\ \E h \in HandlePositions :
             hop.n < MaxDrags /\ Press("left", h, "outside", FALSE, <<0, 0>>)
    \/ PointerFrame /\ \E delta \in Deltas : Move("content", delta)
    \/ PointerFrame /\ Release("left", "content")

SpecResize == ResizeInit /\ [][ResizeNext]_vars

\* ------------------------------------------------------------------------
\* The drag modes: handle resize, title-bar drag, context-menu move
\* ------------------------------------------------------------------------
\* the button presses of one run
MaxPresses == 2

DragDeltas == {<<0, 0>>, <<30, 20>>}

DragInit ==
    /\ \E win32 \in BOOLEAN : app = IdleApp(Rect(100, 100, 400, 300), <<100, 100>>, win32)
    /\ handles = [h \in HandlePositions |-> IdleHandle]
    /\ qt = IdleQt
    /\ hop = IdleHop
    /\ GeoIdle
    /\ OverlayIdle /\ widgets = AllShown
    /\ WalkIdle
    /\ ConfigIdle

DragNext ==
    \/ PointerFrame /\ \E b \in Buttons, target \in Targets, over \in Overs, native \in BOOLEAN,
             delta \in DragDeltas :
             hop.n < MaxPresses /\ Press(b, target, over, native, delta)
    \/ PointerFrame /\ \E target \in Targets, delta \in DragDeltas : Move(target, delta)
    \/ PointerFrame /\ \E b \in Buttons, target \in Targets : Release(b, target)
    \/ PointerFrame /\ \E b \in Buttons : PopupRelease(b)
    \/ PointerFrame /\ \E action \in MenuActions : MenuSelect(action)
    \/ PointerFrame /\ \E delta \in DragDeltas : Tick(delta)

SpecDrag == DragInit /\ [][DragNext]_vars

\* ------------------------------------------------------------------------
\* The overlay under any caller, and under the inspector's handlers
\* ------------------------------------------------------------------------
MainGeometries == {Rect(100, 100, 640, 480), Rect(-30, 50, 640, 480)}

OverlayInit ==
    /\ GeoIdle
    /\ \E g \in MainGeometries :
          app = [IdleApp(g, <<0, 0>>, FALSE) EXCEPT !.inspector_window_instance = 1]
    /\ handles = [h \in HandlePositions |-> IdleHandle]
    /\ qt = IdleQt
    /\ hop = IdleHop
    /\ overlay = NewOverlay
    /\ inspector = NewInspector({1}, 1)
    /\ oop = IdleOop
    /\ widgets = AllShown
    /\ WalkIdle
    /\ ConfigIdle

OverlayNext ==
    \/ OverlayFrame /\ \E w \in WidgetIds \cup {None}, sticky \in BOOLEAN : highlight_widget(w, sticky)
    \/ OverlayFrame /\ \E force \in BOOLEAN : clear_highlight(force)
    \/ OverlayFrame /\ \E w \in WidgetIds, v \in BOOLEAN : SetVisible(w, v)

SpecOverlay == OverlayInit /\ [][OverlayNext]_vars

InspectorNext ==
    \/ OverlayFrame /\ \E w \in WidgetIds : hover_enter(w)
    \/ OverlayFrame /\ \E w \in WidgetIds : hover_leave(w)
    \/ OverlayFrame /\ \E w \in WidgetIds : clicked(w)
    \/ OverlayFrame /\ \E w \in WidgetIds, v \in BOOLEAN : SetVisible(w, v)

SpecInspector == OverlayInit /\ [][InspectorNext]_vars

\* ------------------------------------------------------------------------
\* The inspector is opened and closed, the main window resized and closed
\* ------------------------------------------------------------------------
MaxOpens == 2

LifeFrame == UNCHANGED <<gvars, tvars, cvars, handles, qt, hop>>

\* the main window, the inspector and the overlay of the inspector made last
Life == [app |-> app, inspector |-> inspector, overlay |-> overlay]

\* InspectorWindow(main_app_window=self), show() and restore_geometry()
CreateInspector(lf) ==
    LET id == lf.inspector.made + 1
    IN  [app |-> [lf.app EXCEPT !.inspector_window_instance = id],
         inspector |-> [NewInspector(lf.inspector.windows \cup {id}, id)
                          EXCEPT !.calls = <<"inspector.restore_geometry">>],
         overlay |-> NewOverlay]

\* on_open_inspector that makes a new inspector every time
on_open_inspectorAlways(lf) == CreateInspector(lf)

\* ViewMeshApp.on_open_inspector
on_open_inspector(lf) ==
    IF lf.app.inspector_window_instance = 0
    THEN CreateInspector(lf)
    ELSE [lf EXCEPT !.inspector.windows = @ \cup {lf.app.inspector_window_instance}]

\* InspectorWindow.closeEvent of inspector i
inspector_closeEvent(lf, i) ==
    [lf EXCEPT !.overlay.shown = IF i = lf.inspector.made THEN FALSE ELSE @,
               !.inspector.calls = Append(@, "inspector.save_geometry"),
               !.app.inspector_window_instance = 0,
               !.inspector.windows = @ \ {i}]

\* ViewMeshApp.closeEvent
main_closeEvent(lf) ==
    LET a == IF lf.app.inspector_window_instance # 0
             THEN [inspector_closeEvent(lf, lf.app.inspector_window_instance)
                     EXCEPT !.app.inspector_window_instance = 0]
             ELSE lf
    IN  [a EXCEPT !.inspector.calls = Append(@, "main.save_geometry"),
                  !.app.closed = TRUE]

\* what an operation on the windows leaves in the history
LifeOp(op) == [oop EXCEPT !.op = op, !.call = "none", !.chain = FALSE]

\* the Inspector action of the main window is triggered
OpenInspector ==
    /\ ~app.closed /\ inspector.made < MaxOpens
    /\ LET r == on_open_inspector([Life EXCEPT !.inspector.calls = <<>>])
       IN  app' = r.app /\ inspector' = r.inspector /\ overlay' = r.overlay
    /\ oop' = LifeOp("open")
    /\ UNCHANGED widgets

\* the user closes inspector i
CloseInspector(i) ==
    /\ ~app.closed /\ i \in inspector.windows
    /\ LET r == inspector_closeEvent([Life EXCEPT !.inspector.calls = <<>>], i)
       IN  app' = r.app /\ inspector' = r.inspector /\ overlay' = r.overlay
    /\ oop' = LifeOp("inspector_close")
    /\ UNCHANGED widgets

\* the user closes the main window
CloseMain ==
    /\ ~app.closed
    /\ LET r == main_closeEvent([Life EXCEPT !.inspector.calls = <<>>])
       IN  app' = r.app /\ inspector' = r.inspector /\ overlay' = r.overlay
    /\ oop' = LifeOp("main_close")
    /\ UNCHANGED widgets

\* the rectangle the main window's layout gives widget w in a window of
\* this size
LayoutRect(w, size) ==
    CASE w = "W1" -> Rect(0, 0, size[1], 30)
      [] w = "W2" -> Rect(0, 30, 200, size[2] - 80)
      [] w = "W3" -> Rect(200, 30, size[1] - 200, size[2] - 80)

\* resizeEvent that leaves the overlay alone
resizeEventNoOverlay(ov, instance, size) == ov

\* ViewMeshApp.resizeEvent: the overlay it leaves; update_geometry sets the
\* overlay's geometry to the parent's rect()
resizeEvent(ov, instance, size) ==
    IF instance # 0 THEN [ov EXCEPT !.geometry = Rect(0, 0, size[1], size[2])] ELSE ov

MainSizes == {<<640, 480>>, <<800, 600>>}

\* the main window gets another size: its layout places the widgets, and
\* resizeEvent runs
Resize(size) ==
    /\ ~app.closed /\ <<app.geometry.w, app.geometry.h>> # size
    /\ app' = [app EXCEPT !.geometry.w = size[1], !.geometry.h = size[2]]
    /\ widgets' = [w \in WidgetIds |-> [widgets[w] EXCEPT !.rect = LayoutRect(w, size)]]
    /\ overlay' = resizeEvent(overlay, app.inspector_window_instance, size)
    /\ oop' = [oop EXCEPT !.op = "resize", !.chain = FALSE]
    /\ UNCHANGED inspector

MoveOffset == 10

\* widget w is moved inside the main window, as by a splitter; one widget
\* at a time is off the place the layout gave it
MoveWidget(w) ==
    /\ ~app.closed
    /\ \A v \in WidgetIds : widgets[v].rect = LayoutRect(v, <<app.geometry.w, app.geometry.h>>)
    /\ widgets' = [widgets EXCEPT ![w].rect.x = @ + MoveOffset, ![w].rect.y = @ + MoveOffset]
    /\ oop' = [oop EXCEPT !.op = "moved", !.chain = FALSE]
    /\ UNCHANGED <<app, overlay, inspector>>

\* the rows of the inspector that is open
InspectorOpen == ~app.closed /\ app.inspector_window_instance # 0

LifeNext ==
    \/ LifeFrame /\ OpenInspector
    \/ LifeFrame /\ \E i \in 1..MaxOpens : CloseInspector(i)
    \/ LifeFrame /\ CloseMain
    \/ LifeFrame /\ \E size \in MainSizes : Resize(size)
    \/ LifeFrame /\ \E w \in WidgetIds : MoveWidget(w)
    \/ OverlayFrame /\ InspectorOpen /\ \E w \in WidgetIds : hover_enter(w)
    \/ OverlayFrame /\ InspectorOpen /\ \E w \in WidgetIds : hover_leave(w)
    \/ OverlayFrame /\ InspectorOpen /\ \E w \in WidgetIds : clicked(w)
    \/ OverlayFrame /\ InspectorOpen /\ \E force \in BOOLEAN : clear_highlight(force)

\* the main window after ViewMeshApp.__init__: no inspector yet
LifeInit ==
    /\ GeoIdle
    /\ app = IdleApp(Rect(100, 100, 640, 480), <<0, 0>>, FALSE)
    /\ handles = [h \in HandlePositions |-> IdleHandle]
    /\ qt = IdleQt
    /\ hop = IdleHop
    /\ OverlayIdle /\ widgets = AllShown
    /\ WalkIdle
    /\ ConfigIdle

SpecLife == LifeInit /\ [][LifeNext]_vars

\* ------------------------------------------------------------------------
\* The pointer crosses the resize handles
\* ------------------------------------------------------------------------
HoverNext ==
    \/ PointerFrame /\ \E h \in HandlePositions : Enter(h)
    \/ PointerFrame /\ \E h \in HandlePositions : Leave(h)
    \/ PointerFrame /\ \E h \in HandlePositions :
             /\ hop.n < MaxDrags /\ qt.hover = h
             /\ Press("left", h, "outside", FALSE, <<0, 0>>)
    \/ PointerFrame /\ Release("left", "content")

SpecHover == DragInit /\ [][HoverNext]_vars

\* ------------------------------------------------------------------------
\* Maximize, restore and full screen
\* ------------------------------------------------------------------------
\* ViewMeshApp.__init__ ends with showMaximized() when the stored
\* is_maximized is true
StateInit ==
    /\ \E g \in MainGeometries, is_maximized \in BOOLEAN :
          app = [IdleApp(g, <<100, 100>>, FALSE)
                   EXCEPT !.state = IF is_maximized THEN "maximized" ELSE "normal"]
    /\ handles = [h \in HandlePositions |-> IdleHandle]
    /\ qt = IdleQt
    /\ hop = IdleHop
    /\ GeoIdle
    /\ OverlayIdle /\ widgets = AllShown
    /\ WalkIdle
    /\ ConfigIdle

StateNext ==
    \/ PointerFrame /\ \E b \in Buttons, target \in Targets, over \in Overs :
             DoubleClick(b, target, over)
    \/ PointerFrame /\ ClickMaximize
    \/ PointerFrame /\ MenuMaximizeRestore
    \/ PointerFrame /\ ToggleFullscreen

SpecState == StateInit /\ [][StateNext]_vars

\* ------------------------------------------------------------------------
\* The inspector lists a widget tree
\* ------------------------------------------------------------------------
WalkInit ==
    /\ GeoIdle
    /\ PointerIdle
    /\ OverlayIdle /\ widgets = AllShown
    /\ tree \in Trees
    /\ walk = NoWalk
    /\ ConfigIdle

WalkNext ==
    \/ WalkFrame /\ refresh_visual_tree_view
    \/ WalkFrame /\ refresh_xml_hierarchy_view
    \/ WalkFrame /\ \E c \in 1..MaxNodes, h \in BOOLEAN : SetHidden(c, h)

SpecWalk == WalkInit /\ [][WalkNext]_vars

\* ------------------------------------------------------------------------
\* The configuration is loaded from a store that was written before
\* ------------------------------------------------------------------------
LoadInit ==
    /\ GeoIdle
    /\ PointerIdle
    /\ OverlayIdle /\ widgets = AllShown
    /\ WalkIdle
    /\ ConfigIdle

LoadNext ==
    \/ LoadFrame /\ \E key \in Keys : \E value \in StoredValues(key[2]) : setValue(key, value)
    \/ LoadFrame /\ AppConfig_load

SpecLoad == LoadInit /\ [][LoadNext]_vars


\* ------------------------------------------------------------------------
\* Properties of WindowGeometryManager
\* ------------------------------------------------------------------------
\* the last operation was a restore_geometry that resolved a display
Restored == gop.op = "restore" /\ gop.target # 0

RestoredAvail == screens[gop.target].available

Inside(r, a) ==
    /\ a.x <= r.x /\ r.x + r.w <= a.x + a.w
    /\ a.y <= r.y /\ r.y + r.h <= a.y + a.h

NearX(r, a) == a.x - Margin <= r.x /\ r.x <= a.x + a.w + Margin

NearY(r, a) == a.y - Margin <= r.y /\ r.y <= a.y + a.h + Margin

\* C1: after restore_geometry on a resolved display the window is never fully
\* off-screen: its top-left is within 20px of the available area's bounds on
\* at least one axis or the window lies fully inside the available area, and
\* the window overlaps every available area that is not empty
C1_NeverOffScreen ==
    Restored =>
        /\ \/ NearX(window.geometry, RestoredAvail)
           \/ NearY(window.geometry, RestoredAvail)
           \/ Inside(window.geometry, RestoredAvail)
        /\ (RestoredAvail.w > 0 /\ RestoredAvail.h > 0)
              => Intersects(window.geometry, RestoredAvail)

\* a restore whose candidate position was far outside the resolved display
C1_Witness ==
    /\ Restored
    /\ ~UseRelative
    /\ settings.position = <<-500, -200>>
    /\ RestoredAvail.w > 0
    /\ Intersects(window.geometry, RestoredAvail)

\* C6 (as claimed): save_geometry on a visible window directly followed by
\* restore_geometry from the same store, on the same displays, reproduces the
\* window rectangle exactly
C6_RoundTrip ==
    (gop.op = "restore" /\ gop.chain) => window.geometry = gop.saved

\* C7 (as claimed): after restore_geometry on a resolved display the top-left
\* is at most 20px off the available area and the right and bottom edge do
\* not exceed the available area
C7_FarEdgeInside ==
    Restored =>
        /\ NearX(window.geometry, RestoredAvail)
        /\ NearY(window.geometry, RestoredAvail)
        /\ window.geometry.x + window.geometry.w <= RestoredAvail.x + RestoredAvail.w
        /\ window.geometry.y + window.geometry.h <= RestoredAvail.y + RestoredAvail.h

\* C7 (amended): after restore_geometry on a resolved display the top-left is
\* at most 20px off the available area; along each axis the far edge does not
\* exceed the available area when the window is no larger than the available
\* area, and a larger window starts at the available area's origin
C7_FarEdgeInsideWhenFits ==
    Restored =>
        LET g == window.geometry
            a == RestoredAvail
        IN  /\ NearX(g, a) /\ NearY(g, a)
            /\ IF g.w <= a.w THEN g.x + g.w <= a.x + a.w ELSE g.x = a.x
            /\ IF g.h <= a.h THEN g.y + g.h <= a.y + a.h ELSE g.y = a.y

\* a restore of a window that fits the available area in width only, from a
\* candidate position left of the display
C7_Witness ==
    /\ Restored
    /\ window.geometry.w <= RestoredAvail.w
    /\ window.geometry.h > RestoredAvail.h
    /\ RestoredAvail.h > 0
    /\ ~UseRelative
    /\ settings.position[1] < RestoredAvail.x
    /\ window.geometry.x = RestoredAvail.x
    /\ window.geometry.y = RestoredAvail.y


\* ------------------------------------------------------------------------
\* Properties of resizing by the edge handles
\* ------------------------------------------------------------------------
Moved == hop.op = "move" /\ hop.resized

\* the width and height the drag asks for, before any minimum is considered
AskedWidth ==
    IF hop.who \in LeftHandles THEN hop.start.w - hop.delta[1]
    ELSE IF hop.who \in RightHandles THEN hop.start.w + hop.delta[1]
    ELSE hop.start.w

AskedHeight ==
    IF hop.who \in TopHandles THEN hop.start.h - hop.delta[2]
    ELSE IF hop.who \in BottomHandles THEN hop.start.h + hop.delta[2]
    ELSE hop.start.h

\* C2: whatever the handle position and the pointer delta, the rectangle a
\* handle's mouseMoveEvent applies to the window is at least the minimum
\* width wide and at least the minimum height high.
C2_AtLeastMinimum ==
    Moved => app.geometry.w >= MinWidth /\ app.geometry.h >= MinHeight

\* a right-edge drag that asks for less than the minimum width, and got the
\* minimum width
C2_Witness ==
    /\ Moved /\ hop.who \in RightHandles
    /\ AskedWidth < MinWidth
    /\ app.geometry.w = MinWidth

\* C8: a left or top edge adjustment is applied only if the dimension it
\* asks for is at least the minimum; otherwise the dimension is held at the
\* minimum (TOP_LEFT from (100,100,400,300) with minimum (100,100) dragged
\* by (+350,+250) gives width 100 and height 100).
C8_HeldAtMinimum ==
    Moved =>
        /\ (hop.who \in LeftHandles /\ AskedWidth < MinWidth) => app.geometry.w = MinWidth
        /\ (hop.who \in TopHandles /\ AskedHeight < MinHeight) => app.geometry.h = MinHeight


\* ------------------------------------------------------------------------
\* Properties of the overlay and of the inspector's row handlers
\* ------------------------------------------------------------------------
OverlayCleared == ~overlay.is_highlighting /\ ~overlay.is_sticky /\ overlay.target_rect = NoRect

SameHighlight ==
    /\ overlay.is_highlighting = oop.before.is_highlighting
    /\ overlay.is_sticky = oop.before.is_sticky
    /\ overlay.target_rect = oop.before.target_rect

\* C3: where is_sticky is true, clear_highlight(force_clear_sticky=False)
\* leaves is_highlighting, is_sticky and target_rect unchanged; a following
\* clear_highlight(force_clear_sticky=True) leaves is_highlighting false,
\* is_sticky false and target_rect empty.
C3_StickySurvivesPlainClear ==
    /\ (oop.op = "clear_highlight" /\ ~oop.flag /\ oop.before.is_sticky) => SameHighlight
    /\ (oop.op = "clear_highlight" /\ oop.flag) => OverlayCleared

\* a forced clear right after a plain clear that a sticky highlight survived
C3_Witness ==
    /\ oop.op = "clear_highlight" /\ oop.flag /\ oop.chain
    /\ oop.before.is_sticky /\ oop.before.is_highlighting /\ oop.before.target_rect # NoRect
    /\ OverlayCleared

\* highlight_widget was called with sticky=False for None or a widget that
\* was not visible
NothingToHighlight == oop.op = "highlight_widget" /\ ~oop.flag /\ ~oop.visible

\* C9: for every prior overlay state, highlight_widget with a null or
\* not-visible widget and sticky=False results in is_highlighting false.
C9_NotHighlighting == NothingToHighlight => ~overlay.is_highlighting

\* C9 as the code has it: is_highlighting is false afterwards where the
\* prior state was not sticky; a prior sticky highlight is left as it was.
C9_NotHighlightingUnlessSticky ==
    NothingToHighlight =>
        IF oop.before.is_sticky THEN SameHighlight ELSE OverlayCleared

\* a highlight that was not sticky is cleared by the call
C9_Witness ==
    /\ NothingToHighlight
    /\ oop.before.is_highlighting /\ ~oop.before.is_sticky
    /\ ~overlay.is_highlighting

\* the overlay rectangle for a widget of the main window
RectOf(w) == widgets[w].rect

\* C10: a click on the row of the sticky widget leaves no sticky widget and
\* the overlay not highlighting; a click on any other row makes its widget
\* the sticky widget, and the overlay's sticky highlight is that widget's
\* rectangle, no longer the previous target's.
C10_ClickToggles ==
    oop.op = "clicked" =>
        IF oop.prev = oop.row
        THEN inspector.sticky_highlighted_widget = None /\ ~overlay.is_highlighting
        ELSE /\ inspector.sticky_highlighted_widget = oop.row
             /\ overlay.is_highlighting /\ overlay.is_sticky
             /\ overlay.target_rect = RectOf(oop.row)


\* ------------------------------------------------------------------------
\* Properties of the drag modes
\* ------------------------------------------------------------------------
HandleDragging == \E h \in HandlePositions : handles[h].is_dragging

ContextMenuMoving == app.is_context_menu_moving

\* C4: after any interleaving of pointer events on the title bar and the
\* resize handles, context-menu Move selections and move-timer ticks, at
\* most one of {some handle is_dragging, the main window's dragging flag,
\* is_context_menu_moving} is true.
C4_OneDragMode ==
    /\ ~(HandleDragging /\ app.dragging)
    /\ ~(HandleDragging /\ ContextMenuMoving)
    /\ ~(app.dragging /\ ContextMenuMoving)

\* C5: the pointer grab is held exactly while is_context_menu_moving, and
\* so is the timer running and one override cursor pushed; choosing Move
\* enters the mode; the first press of any button after entry exits it,
\* releasing the grab, stopping the timer and restoring the cursor; timer
\* ticks never exit it.
C5_GrabWhileMoving ==
    /\ qt.grab = ContextMenuMoving
    /\ qt.timer = ContextMenuMoving
    /\ qt.override = IF ContextMenuMoving THEN 1 ELSE 0
    /\ (hop.op = "menu" /\ hop.who = "move") => ContextMenuMoving
    /\ (hop.op = "press" /\ hop.moving) => ~ContextMenuMoving
    /\ hop.op = "tick" => ContextMenuMoving

\* a press of the right button ended a context-menu move
C5_Witness ==
    /\ hop.op = "press" /\ hop.moving /\ hop.button = "right"
    /\ ~ContextMenuMoving /\ ~qt.grab /\ ~qt.timer /\ qt.override = 0


\* ------------------------------------------------------------------------
\* Properties of hovering over the inspector's rows
\* ------------------------------------------------------------------------
LeftOtherRow == oop.op = "hover_leave" /\ oop.row # oop.prev

EnteredOtherRow == oop.op = "hover_enter" /\ oop.row # oop.prev

Shows(w, sticky) ==
    overlay.is_highlighting /\ overlay.is_sticky = sticky /\ overlay.target_rect = RectOf(w)

\* what a highlight_widget call for a widget that is not visible leaves
PlainCleared == IF oop.before.is_sticky THEN SameHighlight ELSE OverlayCleared

\* C11: right after a hover-leave of a row that is not the sticky widget the
\* overlay shows the sticky widget's highlight in sticky mode if a sticky
\* widget exists, and no highlight otherwise; a hover-enter on a row other
\* than the sticky one shows that row's widget non-sticky.
C11_HoverShows ==
    /\ LeftOtherRow =>
          IF oop.prev # None THEN Shows(oop.prev, TRUE)
          ELSE ~overlay.is_highlighting /\ ~overlay.is_sticky
    /\ EnteredOtherRow => Shows(oop.row, FALSE)

\* C11 as the code has it: the same, for a sticky widget and an entered row
\* that are visible; for a widget that is not visible the overlay keeps a
\* sticky highlight it already shows and otherwise shows none.
C11_HoverShowsVisible ==
    /\ LeftOtherRow =>
          IF oop.prev # None
          THEN IF oop.visible THEN Shows(oop.prev, TRUE) ELSE PlainCleared
          ELSE ~overlay.is_highlighting /\ ~overlay.is_sticky
    /\ EnteredOtherRow =>
          IF oop.visible THEN Shows(oop.row, FALSE) ELSE PlainCleared

\* the pointer left a row whose widget was shown non-sticky, and the overlay
\* went back to the sticky widget
C11_Witness ==
    /\ LeftOtherRow /\ oop.prev # None /\ oop.visible
    /\ oop.before.is_highlighting /\ ~oop.before.is_sticky
    /\ oop.before.target_rect = RectOf(oop.row)
    /\ Shows(oop.prev, TRUE)


\* ------------------------------------------------------------------------
\* Properties of the title-bar drag
\* ------------------------------------------------------------------------
\* a press reached mousePressEvent while no drag and no context-menu move
\* was in progress
PressedFromIdle == hop.op = "press" /\ hop.main /\ ~hop.dragging /\ ~hop.moving

\* the left button, in the title bar on no push button and no menu action,
\* and the native move unavailable or throwing
StartsDrag ==
    hop.button = "left" /\ hop.over = "title" /\ ~(app.win32 /\ hop.native)

NamedDisplays == {i \in ScreenIds : screens[i].name = settings.screen_name}

\* the displays whose bounds hold the stored absolute position
PositionDisplays ==
    {i \in ScreenIds :
        ContainsPoint(screens[i].geometry, settings.position[1], settings.position[2])}

\* the fallback window's display for a secondary window whose fallback is
\* visible, else the primary display
FallbackDisplay == IF gop.ref # 0 THEN gop.ref ELSE primaryScreen

\* C13: restore_geometry resolves (1) the display whose name equals the
\* stored display id, else (2) a display whose bounds hold the stored
\* absolute position, else (3) the fallback window's display for a
\* secondary window with a visible fallback, else (4) the primary display.
C13_DisplayPriority ==
    gop.op = "restore" =>
        gop.target =
            IF settings.screen_name # "" /\ NamedDisplays # {} THEN FirstScreen(NamedDisplays)
            ELSE IF PositionDisplays # {} THEN FirstScreen(PositionDisplays)
            ELSE FallbackDisplay

\* C13 as the code has it: step (2) is left out for a stored absolute
\* position of (0,0).
C13_DisplayPriorityNotOrigin ==
    gop.op = "restore" =>
        gop.target =
            IF settings.screen_name # "" /\ NamedDisplays # {} THEN FirstScreen(NamedDisplays)
            ELSE IF settings.position # <<0, 0>> /\ PositionDisplays # {}
            THEN FirstScreen(PositionDisplays)
            ELSE FallbackDisplay

\* a secondary window with stored position (0,0) and no display of the
\* stored name goes to the fallback window's display, not to the display
\* that holds (0,0)
C13_Witness ==
    /\ gop.op = "restore" /\ window.secondary /\ gop.ref # 0
    /\ settings.position = <<0, 0>> /\ NamedDisplays = {}
    /\ PositionDisplays # {} /\ gop.ref \notin PositionDisplays
    /\ gop.target = gop.ref


\* ------------------------------------------------------------------------
\* Properties of the stored relative position
\* ------------------------------------------------------------------------
InUnit(rel) == RelLE(Rel(0, 1), rel) /\ RelLE(rel, Rel(1, 1))

RelInUnit == InUnit(settings.relative_position[1]) /\ InUnit(settings.relative_position[2])

Saved == gop.op = "save" /\ gop.effect

\* C14: after save_geometry on a visible or minimized window both
\* components of relative_position are in [0.0, 1.0], for every window
\* position and every display geometry.
C14_SavedRelInUnit == Saved => RelInUnit

\* a window to the left of the available area is saved with relative x 0
C14_Witness ==
    /\ Saved /\ gop.target # 0
    /\ gop.saved.x < screens[gop.target].available.x
    /\ settings.relative_position[1] = Rel(0, 1)


ZeroArea(r) == ~(r.w > 0 /\ r.h > 0)

\* C15: when save_geometry resolves a display whose available rectangle
\* has zero width or zero height, relative_position keeps the value it
\* had before the save.
C15_ZeroAreaKeepsRelative ==
    [][ (gop'.op = "save" /\ gop'.effect /\ gop'.target # 0
            /\ ZeroArea(screens[gop'.target].available))
        => settings'.relative_position = settings.relative_position ]_vars

\* C16: in every reachable state of the store (defaults, loaded from the
\* settings store, used by restore, overwritten by save) both components
\* of relative_position are within [0.0, 1.0].
C16_RelAlwaysInUnit ==
    \A k \in 1..2 : InUnit(settings.relative_position[k])

\* C17: save_geometry on a window that is hidden and not minimized is a
\* no-op: size, position, relative position, display name and display
\* bounds of the store are all unchanged.
C17_HiddenSaveIsNoOp ==
    [][ (gop'.op = "save" /\ ~window.visible /\ ~window.minimized)
        => settings' = settings ]_vars

\* a save on a hidden window whose geometry differs from what the store holds
C17_Witness ==
    /\ gop.op = "save" /\ ~gop.effect
    /\ ~window.visible /\ ~window.minimized
    /\ settings.position # <<window.geometry.x, window.geometry.y>>
    /\ settings.size # <<window.geometry.w, window.geometry.h>>

\* ------------------------------------------------------------------------
\* Properties of the inspector's renderings
\* ------------------------------------------------------------------------
Listed(seq) == {seq[i] : i \in 1..Len(seq)}

Excluded(w) == KindOf(tree, w) \in {"inspector", "handle", "own_handle"}

\* C18: for every widget tree, neither the markup dump nor the list of rows
\* holds a node for the inspector's own window or for an EdgeResizeHandle.
C18_NoInspectorNoHandle ==
    /\ walk.op = "rows" => \A w \in Listed(walk.rows) : ~Excluded(w)
    /\ walk.op = "xml" => \A w \in Listed(walk.xml) : ~Excluded(w)

\* C19: the list of rows holds no row for a widget that is not visible, and
\* every visible sibling of such a widget has its row.
C19_NoRowForInvisible ==
    walk.op = "rows" =>
        /\ \A w \in Listed(walk.rows) : isVisible(tree, w)
        /\ \A c, d \in DOMAIN tree :
              (/\ tree[c].parent = tree[d].parent /\ c # d
               /\ tree[c].parent \in Listed(walk.rows)
               /\ ~isVisible(tree, c) /\ isVisible(tree, d)
               /\ tree[d].kind = "widget")
              => d \in Listed(walk.rows)

\* ------------------------------------------------------------------------
\* Properties of loading the configuration
\* ------------------------------------------------------------------------
ElementType(field) == IF field = "relative_position" THEN "float" ELSE "int"

NumElements(field) == IF field = "screen_geometry" THEN 4 ELSE 2

\* the stored value is a string that is not a tuple of the field's type
FailsToParse(raw, field) ==
    /\ raw.type = "str"
    /\ parse_tuple_setting(raw, ElementType(field), NumElements(field), <<>>) = <<>>

\* C20: loading the configuration never aborts on a malformed stored value
\* of a tuple-valued key of the main window or of the inspector window, and
\* each field whose stored value fails to parse takes the field's default.
C20_LoadNeverAborts ==
    config.op = "load" =>
        /\ ~config.raised
        /\ \A field \in Fields :
              /\ FailsToParse(qsettings[<<"window/", field>>], field)
                    => config.settings[field] = DefaultSettings[field]
              /\ FailsToParse(qsettings[<<"inspector_window/", field>>], field)
                    => config.inspector_settings[field] = InspectorDefaults[field]

\* ------------------------------------------------------------------------
\* Properties of the window state and the maximize button
\* ------------------------------------------------------------------------
GlyphMatches(a) == a.glyph = "restore" <=> a.state = "maximized"

C26_GlyphMatchesState == GlyphMatches(app)

\* ------------------------------------------------------------------------
\* Properties of the cursor over the resize handles
\* ------------------------------------------------------------------------
SiblingDragging(h) == \E g \in HandlePositions \ {h} : handles[g].is_dragging

\* C22: entering a handle sets the window's cursor to the resize shape of
\* the handle's direction; leaving a handle sets the arrow cursor only if no
\* other handle is dragging, and leaves the cursor unchanged if one is.
C22_LeaveKeepsCursorWhileDragging ==
    [][ /\ hop'.op = "enter" => app'.cursor = CursorShape(hop'.who)
        /\ hop'.op = "leave" =>
              app'.cursor = (IF SiblingDragging(hop'.who) THEN app.cursor ELSE "arrow") ]_vars

\* ------------------------------------------------------------------------
\* Properties of the title-bar drag
\* ------------------------------------------------------------------------
\* the last event was a pointer move that reached ViewMeshApp.mouseMoveEvent
\* with the drag on and the left button held
MovedWhileDragging ==
    /\ hop.op = "move" /\ hop.dragging /\ "left" \in qt.buttons
    /\ ~hop.resized /\ hop.who # "button"

\* the last event was a left release that reached mouseReleaseEvent with
\* the drag on
ReleasedDrag ==
    /\ hop.op = "release" /\ hop.button = "left" /\ hop.dragging
    /\ hop.who \notin HandlePositions \cup {"button"}

RECURSIVE Visited(_, _)
Visited(t, w) ==
    IF w = 0 THEN TRUE ELSE t[w].kind = "widget" /\ Visited(t, t[w].parent)

\* the objects from the main window down to w
RECURSIVE PathTo(_, _)
PathTo(t, w) == IF w = 0 THEN <<0>> ELSE Append(PathTo(t, t[w].parent), w)

\* a comes before b in depth-first pre-order, children in children() order:
\* a is an ancestor of b, or where their paths part a's side is the child
\* created first
PreOrderBefore(t, a, b) ==
    LET pa == PathTo(t, a)
        pb == PathTo(t, b)
    IN  \/ Len(pa) < Len(pb) /\ SubSeq(pb, 1, Len(pa)) = pa
        \/ \E k \in 1..Min(Len(pa), Len(pb)) :
              /\ SubSeq(pa, 1, k - 1) = SubSeq(pb, 1, k - 1)
              /\ pa[k] < pb[k]

\* C24: the list of rows has exactly one row per visited widget, in
\* depth-first pre-order with the children in the toolkit's child order, the
\* i-th row bound to the i-th visited widget; a child that is no widget has
\* no row and does not stop the walk over the siblings after it.
C24_RowsInPreOrder ==
    walk.op = "rows" =>
        /\ Listed(walk.rows) = {w \in 0..Len(tree) : Visited(tree, w)}
        /\ \A i, j \in 1..Len(walk.rows) :
              i < j => PreOrderBefore(tree, walk.rows[i], walk.rows[j])
        /\ \A c \in DOMAIN tree : ~IsQWidget(tree, c) => c \notin Listed(walk.rows)
        /\ \A c, d \in DOMAIN tree :
              (/\ c < d /\ tree[c].parent = tree[d].parent
               /\ ~IsQWidget(tree, c) /\ Visited(tree, d))
              => d \in Listed(walk.rows)

\* a child that is no widget comes before a widget with a child of its own,
\* and both of these have their rows, the parent's first
C24_Witness ==
    /\ walk.op = "rows" /\ Len(tree) = MaxNodes
    /\ tree[1].kind = "object" /\ tree[2].kind = "widget" /\ tree[2].parent = 0
    /\ tree[3].kind = "widget" /\ tree[3].parent = 2
    /\ walk.rows = <<0, 2, 3>>

\* ------------------------------------------------------------------------
\* Properties of the overlay's own state
\* ------------------------------------------------------------------------
\* C27: after any sequence of highlight_widget and clear_highlight calls,
\* is_sticky implies is_highlighting, and target_rect is the empty rectangle
\* whenever is_highlighting is false.
C27_StickyImpliesHighlighting ==
    /\ overlay.is_sticky => overlay.is_highlighting
    /\ ~overlay.is_highlighting => overlay.target_rect = NoRect

\* a forced clear_highlight has just taken a sticky highlight away
C27_Witness ==
    /\ oop.op = "clear_highlight" /\ oop.flag
    /\ oop.before.is_sticky /\ oop.before.target_rect # NoRect
    /\ ~overlay.is_highlighting /\ ~overlay.is_sticky /\ overlay.target_rect = NoRect

\* ------------------------------------------------------------------------
\* Properties of the overlay while the main window changes
\* ------------------------------------------------------------------------
\* C25: whenever the overlay of the open inspector is highlighting, its
\* geometry is exactly the main window's rect(): after every resize of the
\* main window while the inspector is open and after every highlight_widget.
C25_OverlayCoversParent ==
    (app.inspector_window_instance # 0 /\ overlay.is_highlighting)
        => overlay.geometry = ParentRect

\* the main window was resized under a highlight, and the overlay followed
C25_Witness ==
    /\ oop.op = "resize" /\ app.inspector_window_instance # 0
    /\ overlay.is_highlighting /\ overlay.is_sticky
    /\ app.geometry.w = 800 /\ overlay.geometry = Rect(0, 0, 800, 600)

\* C28: while the overlay is highlighting a widget, target_rect is that
\* widget's current rectangle in the main window's coordinates, also after
\* the main window was resized or the widget moved since the highlight call.
C28_TargetRectTracksWidget ==
    (/\ app.inspector_window_instance # 0 /\ overlay.is_highlighting
     /\ oop.call = "highlight" /\ oop.visible)
        => overlay.target_rect = widgets[oop.target].rect

\* ------------------------------------------------------------------------
\* Properties of the inspector's lifetime
\* ------------------------------------------------------------------------
\* C30: at most one inspector exists; on_open_inspector creates one only
\* when the main window holds no instance and shows the existing one
\* otherwise; after the inspector or the main window closed, the instance
\* reference is None; closing the main window closes the inspector, which
\* saves its geometry, before the main window's geometry is saved.
C30_OneInspector ==
    [][ /\ Cardinality(inspector'.windows) <= 1
        /\ inspector'.windows =
              (IF app'.inspector_window_instance = 0 THEN {}
               ELSE {app'.inspector_window_instance})
        /\ oop'.op = "open" =>
              IF app.inspector_window_instance = 0
              THEN /\ app'.inspector_window_instance \notin inspector.windows \cup {0}
                   /\ inspector'.made = inspector.made + 1
              ELSE /\ app'.inspector_window_instance = app.inspector_window_instance
                   /\ inspector'.made = inspector.made
        /\ oop'.op \in {"inspector_close", "main_close"} =>
              app'.inspector_window_instance = 0
        /\ oop'.op = "main_close" =>
              inspector'.calls =
                  (IF app.inspector_window_instance # 0
                   THEN <<"inspector.save_geometry", "main.save_geometry">>
                   ELSE <<"main.save_geometry">>) ]_vars

\* the main window closed with the second inspector open
C30_Witness ==
    /\ oop.op = "main_close" /\ app.closed /\ inspector.made = 2
    /\ inspector.calls = <<"inspector.save_geometry", "main.save_geometry">>
    /\ app.inspector_window_instance = 0 /\ inspector.windows = {}

\* ------------------------------------------------------------------------
\* Properties of a handle drag as a whole
\* ------------------------------------------------------------------------
\* C29: the rectangle a handle's mouseMoveEvent applies depends only on the
\* handle position, the window rectangle captured at the press and the
\* pointer's offset from the press point, not on earlier moves of the drag;
\* with the pointer back at the press point the window has the captured
\* rectangle again, where that rectangle is at least the minimum size.
C29_DragPathIndependent ==
    Moved =>
        /\ app.geometry = NewGeometry(hop.who, hop.start, hop.delta)
        /\ (/\ hop.delta = <<0, 0>>
            /\ hop.start.w >= MinWidth /\ hop.start.h >= MinHeight)
           => app.geometry = hop.start

\* the pointer is at the press point of a handle drag, and the window has
\* the rectangle it had at the press
C29_Witness ==
    /\ Moved /\ hop.delta = <<0, 0>> /\ hop.who \in LeftHandles
    /\ hop.start.w >= MinWidth /\ hop.start.h >= MinHeight
    /\ app.geometry = hop.start /\ handles[hop.who].is_dragging

====
